---- MODULE Spec2Model ----
(***************************************************************************)
(* InfinitePay webhook backend (src/index.js): the POST webhook handler,   *)
(* its field extraction, approval inference, identity resolution, pending  *)
(* intent matching, credit application and audit logging, run by           *)
(* concurrent requests against one remote store.                           *)
(***************************************************************************)
EXTENDS Integers, Sequences, FiniteSets, TLC

(***************************************************************************)
(* JSON values.  A scalar is a record [t, b, n, s]; t is the JavaScript    *)
(* type.  Numbers are held in hundredths (7.99 is 799, 799 is 79900) so    *)
(* that the fractional amounts the code tests for exist.  A "ref" value    *)
(* points at an object or array node of the payload's node table.          *)
(***************************************************************************)
JNull == [t |-> "null", b |-> FALSE, n |-> 0, s |-> ""]
JBool(x) == [t |-> "bool", b |-> x, n |-> 0, s |-> ""]
JNum(h) == [t |-> "num", b |-> FALSE, n |-> h, s |-> ""]
JInt(i) == JNum(i * 100)
JStr(x) == [t |-> "str", b |-> FALSE, n |-> 0, s |-> x]
JRef(i) == [t |-> "ref", b |-> FALSE, n |-> i, s |-> ""]

\* Option values: the code's "value or null".
None == <<>>
Some(x) == <<x>>
IsSome(o) == o # <<>>
Val(o) == o[1]

\* JavaScript truthiness (the || chains and the !x tests).
Truthy(v) ==
  CASE v.t = "null" -> FALSE
    [] v.t = "bool" -> v.b
    [] v.t = "num" -> v.n # 0
    [] v.t = "str" -> v.s # ""
    [] OTHER -> TRUE

\* a ?? b
Nullish(a, b) == IF a.t = "null" THEN b ELSE a

RECURSIVE FirstTruthy(_)
FirstTruthy(vs) ==
  IF vs = <<>> THEN JNull
  ELSE IF Truthy(Head(vs)) THEN Head(vs) ELSE FirstTruthy(Tail(vs))

RECURSIVE FirstNonNull(_)
FirstNonNull(vs) ==
  IF vs = <<>> THEN JNull
  ELSE IF Head(vs).t # "null" THEN Head(vs) ELSE FirstNonNull(Tail(vs))

(***************************************************************************)
(* A payload is a node table: nodes[1] is the root; an object node holds   *)
(* its entries in key order, an array node its elements (keys unused).     *)
(***************************************************************************)
Obj(items) == [kind |-> "obj", items |-> items]
Arr(elems) == [kind |-> "arr", items |-> [i \in DOMAIN elems |-> [k |-> "", v |-> elems[i]]]]
KV(key, value) == [k |-> key, v |-> value]

RECURSIVE Lookup(_, _, _)
Lookup(items, key, i) ==
  IF i > Len(items) THEN JNull
  ELSE IF items[i].k = key THEN items[i].v ELSE Lookup(items, key, i + 1)

\* value?.key on a value of the node table (optional chaining: absence is null).
Prop(nodes, v, key) ==
  IF v.t = "ref" /\ nodes[v.n].kind = "obj" THEN Lookup(nodes[v.n].items, key, 1) ELSE JNull

RECURSIVE Get(_, _, _)
Get(nodes, v, path) ==
  IF path = <<>> THEN v ELSE Get(nodes, Prop(nodes, v, Head(path)), Tail(path))

\* evt?.a?.b?.c from the root of the payload.
At(evt, path) == Get(evt, JRef(1), path)

(***************************************************************************)
(* String helpers.  TLC cannot look inside a string, so the operations     *)
(* the code applies to strings are given on the strings the payloads use.  *)
(***************************************************************************)
\* String(k).toLowerCase() / String(raw).trim().toLowerCase()
ToLowerCase(x) ==
  CASE x \in {"Status", "STATUS", "status "} -> "status"
    [] x \in {"Approved", "APPROVED", " approved "} -> "approved"
    [] x \in {"Rejected", "REJECTED"} -> "rejected"
    [] x \in {"Payment.Approved"} -> "payment.approved"
    [] x \in {"Amount"} -> "amount"
    [] x \in {"Email"} -> "email"
    [] OTHER -> x

\* Number(s) for a string s: Some(hundredths), or None for NaN.
StringToNumber(x) ==
  CASE x \in {"", "0"} -> Some(0)
    [] x = "1" -> Some(100)
    [] x = "30" -> Some(3000)
    [] x = "0.3" -> Some(30)
    [] x = "7.99" -> Some(799)
    [] x = "799" -> Some(79900)
    [] x = "3500" -> Some(350000)
    [] OTHER -> None

\* typeof raw === 'string' ? Number(raw) : raw, kept when Number.isFinite.
FiniteNumber(v) ==
  CASE v.t = "num" -> Some(v.n)
    [] v.t = "str" -> StringToNumber(v.s)
    [] OTHER -> None

\* Math.round of a number in hundredths: the nearest integer, halves up.
MathRound(h) == (h + 50) \div 100

\* String(v) of a scalar, for the strings the model distinguishes.
JString(v) ==
  CASE v.t = "str" -> v.s
    [] v.t = "bool" -> IF v.b THEN "true" ELSE "false"
    [] v.t = "num" -> IF v.n % 100 = 0 THEN ToString(v.n \div 100) ELSE "fraction"
    [] v.t = "ref" -> "[object Object]"
    [] OTHER -> "null"

\* The 36-character hex-and-dash tokens of the model.
U1 == "123e4567-e89b-12d3-a456-426614174000"
U2 == "9b2e4567-e89b-12d3-a456-4266141740ff"
UuidTokens == {U1, U2}
\* \d{1,4} tokens with their values.
DigitTokens == {"0", "30", "180", "9999"}
DigitValue(d) == CASE d = "0" -> 0 [] d = "30" -> 30 [] d = "180" -> 180 [] OTHER -> 9999

normalizeAmountCents(raw) ==
  IF raw.t = "null" THEN None
  ELSE LET n == FiniteNumber(raw) IN
    IF ~IsSome(n) THEN None
    ELSE IF Val(n) > 0 /\ Val(n) < 100000 /\ MathRound(Val(n)) * 100 # Val(n) THEN Some(Val(n))
    ELSE Some(MathRound(Val(n)))

parseReference(reference) ==
  IF ~Truthy(reference) \/ reference.t # "str" THEN None
  ELSE LET x == reference.s IN
    IF \E u \in UuidTokens, d \in DigitTokens : x = "user_" \o u \o "_days_" \o d
    THEN LET m == CHOOSE m \in UuidTokens \X DigitTokens : x = "user_" \o m[1] \o "_days_" \o m[2]
         IN Some([user_id |-> m[1], days |-> DigitValue(m[2])])
    ELSE IF \E u \in UuidTokens, d \in DigitTokens : x = "user_" \o u \o "_" \o d
    THEN LET m == CHOOSE m \in UuidTokens \X DigitTokens : x = "user_" \o m[1] \o "_" \o m[2]
         IN Some([user_id |-> m[1], days |-> DigitValue(m[2])])
    ELSE IF \E u \in UuidTokens, w \in {"premium", "standard"} : x = "user_" \o u \o "_" \o w
    THEN LET m == CHOOSE m \in UuidTokens \X {"premium", "standard"} : x = "user_" \o m[1] \o "_" \o m[2]
         IN Some([user_id |-> m[1], days |-> IF m[2] = "premium" THEN 30 ELSE 0])
    ELSE None

normalizeStatus(raw) == IF ~Truthy(raw) THEN None ELSE Some(ToLowerCase(JString(raw)))

normalizeEventName(raw) == IF ~Truthy(raw) THEN None ELSE Some(ToLowerCase(JString(raw)))

toBoolOrNull(v) ==
  IF v = JBool(TRUE) \/ v = JStr("true") \/ v = JInt(1) \/ v = JStr("1") THEN Some(TRUE)
  ELSE IF v = JBool(FALSE) \/ v = JStr("false") \/ v = JInt(0) \/ v = JStr("0") THEN Some(FALSE)
  ELSE None

looksLikeUuid(v) == v.t = "str" /\ v.s \in UuidTokens

safeNumber(v) == IF v.t = "null" THEN None ELSE FiniteNumber(v)

daysFromAmount(amountCents) ==
  IF ~IsSome(amountCents) THEN None
  ELSE CASE Val(amountCents) = 799 -> Some(30)
         [] Val(amountCents) = 3500 -> Some(180)
         [] Val(amountCents) = 5999 -> Some(365)
         [] OTHER -> None

(***************************************************************************)
(* Tree scanners: breadth-first search of the payload with a queue, a      *)
(* visited set and the depth, array and key limits.                        *)
(***************************************************************************)
Min(a, b) == IF a < b THEN a ELSE b

\* The defaults of findFirstKeyMatch and findFirstStringMatch.
KeyMatchDefaults == [maxDepth |-> 5, maxArray |-> 50, maxKeys |-> 200]
StringMatchDefaults == [maxDepth |-> 5, maxArray |-> 50, maxKeys |-> 400]

\* The elements of an array node pushed on the queue (at most maxArray).
ArrayPush(items, path, depth, maxArray) ==
  [i \in 1..Min(Len(items), maxArray) |->
     [value |-> items[i].v, path |-> Append(path, ToString(i - 1)), depth |-> depth + 1]]

\* The for-loop over the keys of one object: it returns from the function
\* (a match, or null at the key limit) or falls out with the children pushed.
RECURSIVE KeyLoop(_, _, _, _, _, _, _, _)
KeyLoop(items, i, keySet, visitedKeys, maxKeys, path, depth, pushed) ==
  IF i > Len(items) THEN [returned |-> FALSE, result |-> None, visitedKeys |-> visitedKeys, pushed |-> pushed]
  ELSE IF visitedKeys + 1 > maxKeys
  THEN [returned |-> TRUE, result |-> None, visitedKeys |-> visitedKeys + 1, pushed |-> pushed]
  ELSE LET k == items[i].k
           v == items[i].v
       IN IF ToLowerCase(k) \in keySet /\ v.t \in {"str", "num", "bool"}
          THEN [returned |-> TRUE, result |-> Some([path |-> Append(path, k), value |-> v]),
                visitedKeys |-> visitedKeys + 1, pushed |-> pushed]
          ELSE KeyLoop(items, i + 1, keySet, visitedKeys + 1, maxKeys, path, depth,
                       IF v.t = "ref"
                       THEN Append(pushed, [value |-> v, path |-> Append(path, k), depth |-> depth + 1])
                       ELSE pushed)

RECURSIVE KeyMatchLoop(_, _, _, _, _, _)
KeyMatchLoop(nodes, queue, seen, visitedKeys, keySet, opts) ==
  IF queue = <<>> THEN None
  ELSE LET h == Head(queue)
           rest == Tail(queue)
       IN IF h.value.t # "ref" THEN KeyMatchLoop(nodes, rest, seen, visitedKeys, keySet, opts)
          ELSE IF h.value.n \in seen THEN KeyMatchLoop(nodes, rest, seen, visitedKeys, keySet, opts)
          ELSE IF h.depth >= opts.maxDepth
          THEN KeyMatchLoop(nodes, rest, seen \cup {h.value.n}, visitedKeys, keySet, opts)
          ELSE IF nodes[h.value.n].kind = "arr"
          THEN KeyMatchLoop(nodes, rest \o ArrayPush(nodes[h.value.n].items, h.path, h.depth, opts.maxArray),
                            seen \cup {h.value.n}, visitedKeys, keySet, opts)
          ELSE LET r == KeyLoop(nodes[h.value.n].items, 1, keySet, visitedKeys, opts.maxKeys,
                                h.path, h.depth, <<>>)
               IN IF r.returned THEN r.result
                  ELSE KeyMatchLoop(nodes, rest \o r.pushed, seen \cup {h.value.n}, r.visitedKeys, keySet, opts)

\* The faulty variant that keeps no count of the keys.
findFirstKeyMatchUncounted(root, keySet, opts) ==
  KeyMatchLoop(root, <<[value |-> JRef(1), path |-> <<"$">>, depth |-> 0]>>, {}, 0, keySet,
               [opts EXCEPT !.maxKeys = 1000])

\* Some([path, value]) with value a string, number or boolean, or None.
findFirstKeyMatch(root, keySet, opts) ==
  KeyMatchLoop(root, <<[value |-> JRef(1), path |-> <<"$">>, depth |-> 0]>>, {}, 0, keySet, opts)

\* findFirstKeyMatch(...)?.value ?? null
KeyMatchValue(root, keySet) ==
  LET m == findFirstKeyMatch(root, keySet, KeyMatchDefaults) IN IF IsSome(m) THEN Val(m).value ELSE JNull

\* referenceRegex.test(s): the regex is not anchored, so a string that only
\* contains a reference matches too.
RefPrefixes == {"", "pedido "}
referenceRegex(x) ==
  \E pre \in RefPrefixes, u \in UuidTokens :
    \/ \E d \in DigitTokens : x = pre \o "user_" \o u \o "_days_" \o d
    \/ \E d \in DigitTokens : x = pre \o "user_" \o u \o "_" \o d
    \/ \E w \in {"premium", "standard"} : x = pre \o "user_" \o u \o "_" \o w

RECURSIVE StringMatchLoop(_, _, _, _, _)
StringMatchLoop(nodes, queue, seen, visitedKeys, opts) ==
  IF queue = <<>> THEN JNull
  ELSE LET h == Head(queue)
           rest == Tail(queue)
       IN IF h.value.t = "null" THEN StringMatchLoop(nodes, rest, seen, visitedKeys, opts)
          ELSE IF h.value.t = "str"
          THEN IF referenceRegex(h.value.s) THEN h.value
               ELSE StringMatchLoop(nodes, rest, seen, visitedKeys, opts)
          ELSE IF h.value.t # "ref" THEN StringMatchLoop(nodes, rest, seen, visitedKeys, opts)
          ELSE IF h.value.n \in seen THEN StringMatchLoop(nodes, rest, seen, visitedKeys, opts)
          ELSE IF h.depth >= opts.maxDepth
          THEN StringMatchLoop(nodes, rest, seen \cup {h.value.n}, visitedKeys, opts)
          ELSE LET items == nodes[h.value.n].items
                   pushed == [i \in 1..Len(items) |-> [value |-> items[i].v, depth |-> h.depth + 1]]
               IN IF nodes[h.value.n].kind = "arr"
                  THEN StringMatchLoop(nodes, rest \o SubSeq(pushed, 1, Min(Len(items), opts.maxArray)),
                                       seen \cup {h.value.n}, visitedKeys, opts)
                  ELSE IF visitedKeys + Len(items) > opts.maxKeys THEN JNull
                  ELSE StringMatchLoop(nodes, rest \o pushed, seen \cup {h.value.n},
                                       visitedKeys + Len(items), opts)

\* The first string of the payload that matches referenceRegex, or null.
findFirstStringMatch(root, opts) ==
  StringMatchLoop(root, <<[value |-> JRef(1), depth |-> 0]>>, {}, 0, opts)

(***************************************************************************)
(* Approval inference.                                                     *)
(***************************************************************************)
RECURSIVE FirstBool(_)
\* toBoolOrNull(a) ?? toBoolOrNull(b) ?? ...
FirstBool(vs) ==
  IF vs = <<>> THEN None
  ELSE IF IsSome(toBoolOrNull(Head(vs))) THEN toBoolOrNull(Head(vs)) ELSE FirstBool(Tail(vs))

okStatuses == {"approved", "paid", "succeeded", "success", "completed", "confirmed", "captured",
               "settled", "authorized", "authorised", "aprovado", "pago", "confirmado",
               "concluido", "concluído"}
notOkStatuses == {"rejected", "refused", "failed", "canceled", "cancelled", "chargeback",
                  "refunded", "expired", "voided", "recusado", "rejeitado", "falhou",
                  "cancelado", "cancelada", "estornado", "estornada", "expirado", "expirada"}
okEvents == {"payment.approved", "payment.paid", "payment.succeeded", "transaction.approved",
             "transaction.paid"}
notOkEvents == {"payment.rejected", "payment.failed", "payment.canceled", "payment.cancelled",
                "payment.refunded", "transaction.rejected", "transaction.failed",
                "transaction.canceled", "transaction.cancelled", "transaction.refunded"}

explicitApproved(evt) ==
  FirstBool(<<At(evt, <<"data", "approved">>), At(evt, <<"data", "is_approved">>),
              At(evt, <<"data", "isApproved">>), At(evt, <<"approved">>),
              At(evt, <<"is_approved">>), At(evt, <<"isApproved">>)>>)

explicitPaid(evt) ==
  FirstBool(<<At(evt, <<"data", "paid">>), At(evt, <<"data", "is_paid">>),
              At(evt, <<"data", "isPaid">>), At(evt, <<"paid">>),
              At(evt, <<"is_paid">>), At(evt, <<"isPaid">>)>>)

hasPaidAt(evt) ==
  Truthy(FirstTruthy(<<At(evt, <<"data", "paid_at">>), At(evt, <<"data", "paidAt">>),
                       At(evt, <<"data", "approved_at">>), At(evt, <<"data", "approvedAt">>),
                       At(evt, <<"data", "confirmed_at">>), At(evt, <<"data", "confirmedAt">>),
                       At(evt, <<"data", "captured_at">>), At(evt, <<"data", "capturedAt">>)>>))

approvalAmountCents(evt) ==
  normalizeAmountCents(FirstNonNull(<<At(evt, <<"data", "amount">>), At(evt, <<"data", "total_amount">>),
                                      At(evt, <<"amount">>), At(evt, <<"total_amount">>)>>))

approvalPaidAmountCents(evt) ==
  normalizeAmountCents(FirstNonNull(<<At(evt, <<"data", "paid_amount">>), At(evt, <<"data", "paidAmount">>),
                                      At(evt, <<"paid_amount">>), At(evt, <<"paidAmount">>)>>))

\* The faulty variant that compares the amounts whatever the total is.
amountRuleAppliesAtZero(amountCents, paidAmountCents) == IsSome(amountCents) /\ IsSome(paidAmountCents)

\* Line 202: Number.isFinite(amountCents) && amountCents > 0 && Number.isFinite(paidAmountCents)
amountRuleApplies(amountCents, paidAmountCents) ==
  IsSome(amountCents) /\ Val(amountCents) > 0 /\ IsSome(paidAmountCents)

\* The faulty variant that looks at the status and the event name first.
computeApprovalStatusFirst(eventName, status, evt) ==
  IF IsSome(status) /\ Val(status) \in okStatuses THEN Some(TRUE)
  ELSE IF IsSome(status) /\ Val(status) \in notOkStatuses THEN Some(FALSE)
  ELSE IF IsSome(eventName) /\ Val(eventName) \in okEvents THEN Some(TRUE)
  ELSE IF IsSome(eventName) /\ Val(eventName) \in notOkEvents THEN Some(FALSE)
  ELSE IF IsSome(explicitApproved(evt)) THEN explicitApproved(evt)
  ELSE IF IsSome(explicitPaid(evt)) THEN explicitPaid(evt)
  ELSE IF hasPaidAt(evt) THEN Some(TRUE)
  ELSE LET amountCents == approvalAmountCents(evt)
           paidAmountCents == approvalPaidAmountCents(evt)
           byAmount == amountRuleApplies(amountCents, paidAmountCents)
       IN IF byAmount /\ Val(paidAmountCents) >= Val(amountCents) THEN Some(TRUE)
          ELSE IF byAmount /\ Val(paidAmountCents) = 0 THEN Some(FALSE)
          ELSE None

\* Some(TRUE), Some(FALSE) or None (unknown).
computeApproval(eventName, status, evt) ==
  IF IsSome(explicitApproved(evt)) THEN explicitApproved(evt)
  ELSE IF IsSome(explicitPaid(evt)) THEN explicitPaid(evt)
  ELSE IF hasPaidAt(evt) THEN Some(TRUE)
  ELSE LET amountCents == approvalAmountCents(evt)
           paidAmountCents == approvalPaidAmountCents(evt)
           byAmount == amountRuleApplies(amountCents, paidAmountCents)
       IN IF byAmount /\ Val(paidAmountCents) >= Val(amountCents) THEN Some(TRUE)
          ELSE IF byAmount /\ Val(paidAmountCents) = 0 THEN Some(FALSE)
          ELSE IF IsSome(status) /\ Val(status) \in okStatuses THEN Some(TRUE)
          ELSE IF IsSome(status) /\ Val(status) \in notOkStatuses THEN Some(FALSE)
          ELSE IF IsSome(eventName) /\ Val(eventName) \in okEvents THEN Some(TRUE)
          ELSE IF IsSome(eventName) /\ Val(eventName) \in notOkEvents THEN Some(FALSE)
          ELSE None

\* JSON.stringify of a value of the payload.
RECURSIVE Stringify(_, _)
RECURSIVE StringifyItems(_, _, _, _)
StringifyItems(nodes, items, i, isObj) ==
  IF i > Len(items) THEN ""
  ELSE (IF i > 1 THEN "," ELSE "")
       \o (IF isObj THEN "\"" \o items[i].k \o "\":" ELSE "")
       \o Stringify(nodes, items[i].v)
       \o StringifyItems(nodes, items, i + 1, isObj)
Stringify(nodes, v) ==
  CASE v.t = "str" -> "\"" \o v.s \o "\""
    [] v.t = "ref" /\ nodes[v.n].kind = "obj" -> "{" \o StringifyItems(nodes, nodes[v.n].items, 1, TRUE) \o "}"
    [] v.t = "ref" /\ nodes[v.n].kind = "arr" -> "[" \o StringifyItems(nodes, nodes[v.n].items, 1, FALSE) \o "]"
    [] v.t = "num" -> ToString(v.n \div 100) \o "." \o ToString(v.n % 100)
    [] OTHER -> JString(v)

\* sha256 of JSON.stringify(evt ?? {}), first 32 hex characters: a function of
\* the payload's text, never null for a parsed JSON body.
stableFallbackPaymentId(evt) == JStr("sha256:" \o Stringify(evt, JRef(1)))

(***************************************************************************)
(* Field extraction of the POST handler: everything it computes from the   *)
(* payload before its first remote call.                                   *)
(***************************************************************************)
eventNameRaw(evt) ==
  FirstTruthy(<<At(evt, <<"event">>), At(evt, <<"type">>), At(evt, <<"name">>),
                At(evt, <<"event_name">>), At(evt, <<"eventName">>), At(evt, <<"topic">>),
                At(evt, <<"action">>), At(evt, <<"event_type">>), At(evt, <<"eventType">>)>>)

statusRaw(evt) ==
  FirstTruthy(<<At(evt, <<"data", "status">>), At(evt, <<"data", "payment_status">>),
                At(evt, <<"data", "paymentStatus">>), At(evt, <<"data", "transaction_status">>),
                At(evt, <<"data", "state">>), At(evt, <<"data", "situation">>),
                At(evt, <<"data", "status_detail">>), At(evt, <<"data", "statusDetail">>),
                At(evt, <<"data", "payment", "status">>), At(evt, <<"data", "transaction", "status">>),
                At(evt, <<"data", "charge", "status">>), At(evt, <<"data", "order", "status">>),
                At(evt, <<"status">>)>>)

\* The faulty variant that reads the fixed paths only.
statusFallbackWithoutScan(evt) == statusRaw(evt)

statusFallback(evt) ==
  Nullish(statusRaw(evt),
          KeyMatchValue(evt, {"status", "state", "situation", "payment_status", "transaction_status"}))

referenceField(evt) ==
  FirstTruthy(<<At(evt, <<"data", "reference">>), At(evt, <<"data", "external_reference">>),
                At(evt, <<"data", "externalReference">>), At(evt, <<"data", "order_reference">>),
                At(evt, <<"data", "orderReference">>), At(evt, <<"data", "description">>),
                At(evt, <<"data", "title">>), At(evt, <<"data", "message">>),
                At(evt, <<"data", "metadata", "reference">>), At(evt, <<"data", "metadata", "ref">>),
                At(evt, <<"data", "metadata", "external_reference">>), At(evt, <<"reference">>)>>)

referenceScanned(evt) == Nullish(referenceField(evt), findFirstStringMatch(evt, StringMatchDefaults))

providerPaymentIdField(evt) ==
  FirstTruthy(<<At(evt, <<"data", "payment_id">>), At(evt, <<"data", "paymentId">>),
                At(evt, <<"data", "id">>), At(evt, <<"data", "transaction_id">>),
                At(evt, <<"data", "transactionId">>), At(evt, <<"data", "transaction_nsu">>),
                At(evt, <<"data", "order_nsu">>), At(evt, <<"data", "invoice_slug">>),
                At(evt, <<"payment_id">>), At(evt, <<"id">>), At(evt, <<"transaction_id">>),
                At(evt, <<"transactionId">>), At(evt, <<"transaction_nsu">>),
                At(evt, <<"order_nsu">>), At(evt, <<"invoice_slug">>)>>)

\* The faulty variant that trusts the payload to carry an id.
providerPaymentIdWithoutFallback(evt) == providerPaymentIdField(evt)

\* Lines 705-722: the id of the payload, or else the digest of the payload.
providerPaymentIdOf(evt) ==
  IF Truthy(providerPaymentIdField(evt)) THEN providerPaymentIdField(evt)
  ELSE stableFallbackPaymentId(evt)

amountRaw(evt) ==
  FirstNonNull(<<At(evt, <<"data", "amount">>), At(evt, <<"data", "total_amount">>),
                 At(evt, <<"amount">>), At(evt, <<"total_amount">>),
                 At(evt, <<"paid_amount">>), At(evt, <<"paidAmount">>)>>)

amountFallback(evt) ==
  Nullish(amountRaw(evt), KeyMatchValue(evt, {"amount", "total_amount", "paid_amount", "paidamount"}))

payerEmail(evt) ==
  FirstTruthy(<<At(evt, <<"data", "customer", "email">>), At(evt, <<"data", "payer", "email">>),
                At(evt, <<"data", "buyer", "email">>), At(evt, <<"data", "customer_email">>),
                At(evt, <<"data", "customerEmail">>), At(evt, <<"data", "buyer_email">>),
                At(evt, <<"data", "buyerEmail">>), At(evt, <<"data", "email">>),
                At(evt, <<"email">>)>>)

payerEmailScanned(evt) ==
  Nullish(payerEmail(evt),
          KeyMatchValue(evt, {"email", "customer_email", "customeremail", "buyer_email",
                              "buyeremail", "payer_email", "payeremail"}))

maybeUserId(evt) ==
  FirstTruthy(<<At(evt, <<"data", "uid">>), At(evt, <<"data", "user_id">>),
                At(evt, <<"data", "userId">>), At(evt, <<"data", "metadata", "uid">>),
                At(evt, <<"data", "metadata", "user_id">>), At(evt, <<"data", "metadata", "userId">>)>>)

maybeDays(evt) ==
  FirstTruthy(<<At(evt, <<"data", "days">>), At(evt, <<"data", "metadata", "days">>),
                At(evt, <<"data", "metadata", "plan_days">>)>>)

\* !days of a nullable number
NoDays(days) == ~IsSome(days) \/ Val(days) = 0
\* !userId of a nullable string
NoUser(userId) == ~IsSome(userId) \/ Val(userId) = ""

\* userId after reference parsing and the metadata fields.
userIdFromPayload(evt) ==
  LET parsed == parseReference(referenceScanned(evt))
      fromRef == IF IsSome(parsed) THEN Some(Val(parsed).user_id) ELSE None
  IN IF NoUser(fromRef) /\ looksLikeUuid(maybeUserId(evt)) THEN Some(maybeUserId(evt).s) ELSE fromRef

\* days after reference parsing, the metadata fields and the amount table: a
\* number like any other of the handler, in hundredths.
daysFromPayload(evt) ==
  LET parsed == parseReference(referenceScanned(evt))
      fromRef == IF IsSome(parsed) THEN Some(Val(parsed).days * 100) ELSE None
      n == safeNumber(maybeDays(evt))
      fromMeta == IF NoDays(fromRef) /\ IsSome(n) /\ Val(n) > 0 THEN Some(MathRound(Val(n)) * 100) ELSE fromRef
      inferredDays == daysFromAmount(normalizeAmountCents(amountFallback(evt)))
  IN IF NoDays(fromMeta) /\ IsSome(inferredDays) THEN Some(Val(inferredDays) * 100) ELSE fromMeta

\* The locals of the handler at its first await.
Extract(evt) ==
  LET eventName == normalizeEventName(eventNameRaw(evt))
      status == normalizeStatus(statusFallback(evt))
  IN [eventName |-> eventName,
      status |-> status,
      approved |-> computeApproval(eventName, status, evt),
      reference |-> referenceScanned(evt),
      providerPaymentId |-> providerPaymentIdOf(evt),
      amountCents |-> normalizeAmountCents(amountFallback(evt)),
      payerEmail |-> payerEmailScanned(evt),
      userId |-> userIdFromPayload(evt),
      days |-> daysFromPayload(evt)]

(***************************************************************************)
(* The webhook payloads of the model: {top..., data: {...}} bodies in the  *)
(* provider's variants, and bodies whose fields sit off the fixed paths.   *)
(***************************************************************************)
Evt(top, data) == <<Obj(Append(top, KV("data", JRef(2)))), Obj(data)>>

RefU1Days30 == "user_" \o U1 \o "_days_30"

WebhookPayloads == <<
  \* 1: the provider's documented shape, reference kept
  Evt(<<KV("event", JStr("payment.approved"))>>,
      <<KV("status", JStr("approved")), KV("reference", JStr(RefU1Days30)),
        KV("amount", JInt(799)), KV("payment_id", JStr("abc"))>>),
  \* 2: no reference, no email, no metadata: only the amount can identify the payer
  Evt(<<KV("event", JStr("payment.approved"))>>,
      <<KV("status", JStr("approved")), KV("amount", JInt(1234)), KV("payment_id", JStr("abc"))>>),
  \* 3: approved, payer email only
  Evt(<<KV("event", JStr("payment.approved"))>>,
      <<KV("status", JStr("paid")), KV("amount", JInt(799)), KV("payment_id", JStr("abc")),
        KV("customer_email", JStr("ana@example.com"))>>),
  \* 4: rejected, payer email only
  Evt(<<KV("event", JStr("payment.rejected"))>>,
      <<KV("status", JStr("rejected")), KV("payment_id", JStr("def")),
        KV("email", JStr("ana@example.com"))>>),
  \* 5: no approval signal, nothing but the amount
  Evt(<<KV("event", JStr("payment.updated"))>>,
      <<KV("status", JStr("processing")), KV("amount", JInt(1234)), KV("payment_id", JStr("xyz"))>>),
  \* 6: no approval signal, payer email
  Evt(<<>>, <<KV("buyer_email", JStr("bia@example.com"))>>),
  \* 7: approved by flag, user in the metadata, fractional amount as a string, no payment id
  Evt(<<KV("paid", JBool(TRUE))>>,
      <<KV("uid", JStr(U2)), KV("amount", JStr("7.99"))>>),
  \* 8: approved, user in the metadata, an amount outside the price table
  Evt(<<KV("approved", JStr("1"))>>,
      <<KV("user_id", JStr(U2)), KV("amount", JInt(1234)), KV("id", JStr("tx9"))>>),
  \* 9: approved, legacy reference worth 0 days, fractional days in the metadata
  Evt(<<KV("type", JStr("transaction.paid"))>>,
      <<KV("reference", JStr("user_" \o U1 \o "_standard")), KV("days", JStr("0.3")),
        KV("amount", JInt(1234)), KV("transaction_id", JStr("tx7"))>>),
  \* 10: rejected, reference kept
  Evt(<<KV("status", JStr("expired"))>>,
      <<KV("reference", JStr(RefU1Days30)), KV("amount", JInt(799)), KV("payment_id", JStr("def"))>>),
  \* 11: fields off the fixed paths: status, reference and amount are found by the scans
  <<Obj(<<KV("payload", JRef(2))>>),
    Obj(<<KV("payment", JRef(3)), KV("Amount", JInt(3500))>>),
    Obj(<<KV("Status", JStr("Approved")), KV("notes", JRef(4))>>),
    Arr(<<JStr("pedido " \o RefU1Days30), JStr(RefU1Days30)>>)>>,
  \* 12: approved, no amount at all and nobody identified
  Evt(<<KV("event", JStr("payment.paid"))>>, <<KV("invoice_slug", JStr("inv1"))>>),
  \* 13: approved, reference of the second grammar worth more days than the amount, payer email
  Evt(<<KV("event", JStr("payment.approved"))>>,
      <<KV("status", JStr("approved")), KV("reference", JStr("user_" \o U2 \o "_180")),
        KV("amount", JInt(799)), KV("payment_id", JStr("p13")),
        KV("customer_email", JStr("ana@example.com"))>>),
  \* 14: approved, user and days in the metadata, an amount the price table gives other days for
  Evt(<<KV("event", JStr("payment.approved"))>>,
      <<KV("status", JStr("paid")), KV("user_id", JStr(U1)), KV("days", JInt(7)),
        KV("amount", JInt(3500)), KV("payment_id", JStr("p14"))>>),
  \* 15: the documented shape without its reference, an amount of the price table
  Evt(<<KV("event", JStr("payment.approved"))>>,
      <<KV("status", JStr("approved")), KV("amount", JInt(799)), KV("payment_id", JStr("abc"))>>)
>>

PayloadIds == DOMAIN WebhookPayloads


(***************************************************************************)
(* State.                                                                  *)
(***************************************************************************)
Extracted == [p \in PayloadIds |-> Extract(WebhookPayloads[p])]

VARIABLES
  hasEnv,   \* SUPABASE_URL and SUPABASE_SERVICE_ROLE_KEY are both set
  intents,  \* table payment_intents: row id -> row, in the order of created_at
  expired,  \* how many of the oldest intents were created more than an hour ago
  events,   \* table payment_webhook_events: the distinct rows inserted
  credits,  \* service_apply_payment_credits: the calls that went through
  req,      \* the POST handler's locals, per request in flight
  probe     \* a pure function's arguments and result (the function specifications)

vars == <<hasEnv, intents, expired, events, credits, req, probe>>

\* Request 1 is a delivery with any payload.  Request 2 is a delivery running
\* concurrently with it: the requests share nothing but the intent table (the
\* other tables are only written), so request 2 carries the payloads that
\* reach tryMatchIntent's select with the intents' amount.
Requests == {1, 2}
ConcurrentPayloads == {2}
PayloadsOf(r) == IF r = 1 THEN PayloadIds ELSE ConcurrentPayloads

\* Bounds of the model.
MaxIntents == 2

\* The rows of payment_intents, as the store returns them: with a user and a
\* whole number of days, with a user and days that Number() reads as 2.5, with
\* a user and no days, and with no user_id.  The users take turns (which user
\* it is changes nothing, only whether two intents belong to the same one).
\* The amount is that of payload 2, one the price table lacks, so that the
\* days can only come from the intent.
IntentKinds ==
  {[valid |-> TRUE, days |-> JInt(30)], [valid |-> TRUE, days |-> JNum(250)],
   [valid |-> TRUE, days |-> JNull], [valid |-> FALSE, days |-> JNull]}
IntentAmountCents == Val(Extracted[2].amountCents)
IntentUser(id) == IF id % 2 = 1 THEN U1 ELSE U2

\* The payloads whose request can find one of the intents: no user of their own
\* and the intents' amount.  Two requests are interleaved only when both carry
\* such a payload; any other request touches no row the other one reads, and
\* is followed on its own.
RacingPayloads ==
  {p \in PayloadIds : Extracted[p].amountCents = Some(IntentAmountCents) /\ NoUser(Extracted[p].userId)}

\* What service_get_user_id_by_email answers: a bare id, a list of rows, a row, null.
EmailResponses ==
  {[shape |-> "string", user_id |-> U1], [shape |-> "string", user_id |-> ""],
   [shape |-> "array", user_id |-> U1], [shape |-> "object", user_id |-> U1],
   [shape |-> "null", user_id |-> ""]}

InsertResults == {"ok", "unknown_column", "other_error"}

IdleRequest ==
  [pc |-> "idle", evt |-> 0, approved |-> None, providerPaymentId |-> JNull, amountCents |-> None,
   payerEmail |-> JNull, userId |-> None, days |-> None,
   ctxUserId |-> None, ctxDays |-> None, ctxIntentId |-> 0, ctxIntentMatchReason |-> None,
   intent |-> 0, outcome |-> "", outcomeReason |-> None, stage |-> "",
   rpcCalls |-> 0, selects |-> 0, patches |-> <<>>, applyCalls |-> <<>>, raised |-> {},
   logCalls |-> <<>>, res |-> None]

Init ==
  /\ hasEnv \in BOOLEAN
  /\ intents = <<>>
  /\ expired = 0
  /\ events = {}
  /\ credits = {}
  /\ req = [r \in Requests |-> IdleRequest]
  /\ probe = None

(***************************************************************************)
(* The synchronous stretches of the POST handler between two awaits.       *)
(***************************************************************************)
\* The row handed to logWebhookEvent (the columns copied from the payload as they
\* came, event_name, status, reference, payer_email and raw_event, are left out).
LogRow(st, r, outcome, reason, userId, days) ==
  [provider |-> "infinitepay", approved |-> st.approved,
   provider_payment_id |-> st.providerPaymentId, amount_cents |-> st.amountCents,
   user_id |-> userId, days |-> days, outcome |-> outcome, outcome_reason |-> reason,
   trace_id |-> r]

\* await logWebhookEvent(row): the call is made, its first insert is in flight.
CallLog(st, r, outcome, reason, stage) ==
  [st EXCEPT !.pc = "insert_log", !.stage = stage,
             !.logCalls = Append(@, LogRow(st, r, outcome, reason, st.userId, st.days))]

\* The faulty variant that forgets the reason of tryMatchIntent.
MissingWithReasonPlain(st) == "missing_user_or_days"

\* Lines 834-956: the branches on approved, the identity guard, the payment id
\* guard, up to the next await (a log write or applyCredits).
MissingWithReason(st) ==
  IF IsSome(st.ctxIntentMatchReason)
  THEN "missing_user_or_days_" \o Val(st.ctxIntentMatchReason)
  ELSE "missing_user_or_days"

\* Line 888: !userId || !days || days <= 0
MissingUserOrDays(st) == NoUser(st.userId) \/ NoDays(st.days) \/ Val(st.days) <= 0

Decide(st0, r) ==
  LET st == [st0 EXCEPT !.ctxUserId = st0.userId, !.ctxDays = st0.days]
      approved == st.approved
  IN IF approved = Some(FALSE)
     THEN CallLog([st EXCEPT !.outcome = "ignored", !.outcomeReason = Some("not_approved")],
                  r, "ignored", Some("not_approved"), "final")
     ELSE IF approved = None
     THEN CallLog([st EXCEPT !.outcome = "skipped", !.outcomeReason = Some("unknown_approval_state")],
                  r, "skipped", Some("unknown_approval_state"), "final")
     ELSE IF MissingUserOrDays(st)
     THEN CallLog([st EXCEPT !.outcome = "skipped", !.outcomeReason = Some(MissingWithReason(st))],
                  r, "skipped", Some(MissingWithReason(st)), "final")
     ELSE IF ~Truthy(st.providerPaymentId)
     THEN CallLog([st EXCEPT !.outcome = "skipped", !.outcomeReason = Some("missing_provider_payment_id")],
                  r, "skipped", Some("missing_provider_payment_id"), "final")
     ELSE [st EXCEPT !.outcome = "received", !.pc = "apply"]

\* Lines 817-832 and 557: tryMatchIntent is entered when nobody is identified yet.
StartMatch(st, r) ==
  IF ~IsSome(st.amountCents)
  THEN Decide([st EXCEPT !.ctxIntentMatchReason = Some("invalid_amount")], r)
  ELSE [st EXCEPT !.pc = "select_intents"]

\* The faulty variant that looks the payer up whoever the payload names.
AfterExtractAlwaysEmail(st, r) ==
  IF Truthy(st.payerEmail) THEN [st EXCEPT !.pc = "resolve_email"]
  ELSE IF NoUser(st.userId) THEN StartMatch(st, r)
  ELSE Decide(st, r)

\* Lines 806-832: the email fallback, then the intent fallback, then the decision.
AfterExtract(st, r) ==
  IF NoUser(st.userId) /\ Truthy(st.payerEmail) THEN [st EXCEPT !.pc = "resolve_email"]
  ELSE IF NoUser(st.userId) THEN StartMatch(st, r)
  ELSE Decide(st, r)

\* The faulty variant whose outer catch answers without a log.
EnterCatchUnlogged(st, r, message) ==
  [st EXCEPT !.pc = "done", !.stage = "catch", !.res = Some([status |-> 500, body |-> "error:Erro interno"])]

\* Lines 1029-1052: the outer catch logs outcome 'error' from the ctx variables.
EnterCatch(st, r, message) ==
  [st EXCEPT !.pc = "insert_log", !.stage = "catch",
             !.logCalls = Append(@, LogRow(st, r, "error", Some(message), st.ctxUserId, st.ctxDays))]

Respond(st, status, body) == [st EXCEPT !.pc = "done", !.res = Some([status |-> status, body |-> body])]

\* What follows a logWebhookEvent call, whatever became of its inserts.
AfterLog(st, r) ==
  CASE st.stage = "apply_error" -> EnterCatch(st, r, Val(st.outcomeReason))
    [] st.stage = "catch" -> Respond(st, 500, "error:Erro interno")
    [] st.outcome = "ignored" -> Respond(st, 200, "received:true")
    [] st.outcome = "skipped" -> Respond(st, 200, "received:true,skipped:true")
    [] OTHER -> Respond(st, 200, "success:true")

(***************************************************************************)
(* The remote store.                                                       *)
(***************************************************************************)
\* select ... provider=eq.infinitepay, status=eq.pending, amount_cents=eq.<amount>,
\* created_at=gte.<one hour ago>
Candidates(amountCents) ==
  {i \in DOMAIN intents :
     /\ intents[i].status = "pending"
     /\ intents[i].amount_cents = amountCents
     /\ i > expired}

\* The newest row of a non-empty set of rows: the one inserted last.
Newest(S) == CHOOSE i \in S : \A j \in S : j <= i

\* order=created_at.desc, limit=2
supabaseSelect(amountCents) ==
  LET S == Candidates(amountCents)
  IN IF S = {} THEN <<>>
     ELSE IF Cardinality(S) = 1 THEN <<Newest(S)>>
     ELSE <<Newest(S), Newest(S \ {Newest(S)})>>

\* The faulty variant whose patch filters on the id alone.
ClaimRowsUnconditional(id) == {id}

\* PATCH payment_intents?id=eq.<id>&status=eq.pending: the rows it updates.
ClaimRows(id) == IF intents[id].status = "pending" THEN {id} ELSE {}

\* The faulty variant whose filter matches every row of the table.
supabasePatchEveryRow(ids, status, providerPaymentId) ==
  [i \in DOMAIN intents |->
     IF ids # {}
     THEN [intents[i] EXCEPT !.status = status, !.provider_payment_id = providerPaymentId]
     ELSE intents[i]]

\* PATCH payment_intents?id=eq.<id> with a new status.
supabasePatch(ids, status, providerPaymentId) ==
  [i \in DOMAIN intents |->
     IF i \in ids
     THEN [intents[i] EXCEPT !.status = status, !.provider_payment_id = providerPaymentId]
     ELSE intents[i]]

(***************************************************************************)
(* The POST /api/infinitepay/webhook handler, one action per await.        *)
(***************************************************************************)
\* The faulty variant that goes on without the configuration.
MissingEnvIgnored == FALSE

\* Lines 613-615: !hasSupabaseUrl || !hasServiceRoleKey
MissingEnv == ~hasEnv

\* Lines 593-815: the request arrives; without configuration it is answered at
\* once, otherwise the payload is read and the handler runs to its first await.
Receive(r) ==
  /\ req[r].pc = "idle"
  /\ \E p \in PayloadsOf(r) :
       /\ \A o \in Requests \ {r} : req[o].pc = "idle" \/ {p, req[o].evt} \subseteq RacingPayloads
       /\ IF MissingEnv
          THEN req' = [req EXCEPT ![r] = Respond([@ EXCEPT !.evt = p], 500, "error:missing_supabase_env")]
          ELSE \E x \in {Extracted[p]} :
                 req' = [req EXCEPT ![r] =
                   AfterExtract([@ EXCEPT !.evt = p, !.approved = x.approved,
                                          !.providerPaymentId = x.providerPaymentId,
                                          !.amountCents = x.amountCents, !.payerEmail = x.payerEmail,
                                          !.userId = x.userId, !.days = x.days], r)]
  /\ UNCHANGED <<hasEnv, intents, expired, events, credits, probe>>

\* Lines 809-813: the answer of service_get_user_id_by_email, in its three shapes.
ResolvedUser(resolved, userId) ==
  IF resolved.shape = "string" THEN Some(resolved.user_id)
  ELSE IF resolved.shape \in {"array", "object"} /\ resolved.user_id # "" THEN Some(resolved.user_id)
  ELSE userId

ResolveEmail(r) ==
  /\ req[r].pc = "resolve_email"
  /\ \/ \E resolved \in EmailResponses :
          req' = [req EXCEPT ![r] =
            LET st == [@ EXCEPT !.rpcCalls = @ + 1, !.userId = ResolvedUser(resolved, @)]
            IN IF NoUser(st.userId) THEN StartMatch(st, r) ELSE Decide(st, r)]
     \* the RPC raises: nothing catches it before the outer catch
     \/ req' = [req EXCEPT ![r] =
          EnterCatch([@ EXCEPT !.rpcCalls = @ + 1, !.raised = @ \cup {"email"}], r, "rpc_failed")]
  /\ UNCHANGED <<hasEnv, intents, expired, events, credits, probe>>

\* The faulty variant that takes the newest candidate however many there are.
AfterSelectTakesNewest(st, r, rows) ==
  IF Len(rows) = 0 THEN Decide([st EXCEPT !.ctxIntentMatchReason = Some("no_candidate")], r)
  ELSE IF NoUser(intents[rows[1]].user_id)
  THEN Decide([st EXCEPT !.ctxIntentMatchReason = Some("invalid_intent_row")], r)
  ELSE [st EXCEPT !.intent = rows[1], !.pc = "claim_intent"]

\* Lines 570-575: the select of tryMatchIntent and what it makes of the rows.
AfterSelect(st, r, rows) ==
  IF Len(rows) = 0 THEN Decide([st EXCEPT !.ctxIntentMatchReason = Some("no_candidate")], r)
  ELSE IF Len(rows) # 1 THEN Decide([st EXCEPT !.ctxIntentMatchReason = Some("multiple_candidates")], r)
  ELSE IF NoUser(intents[rows[1]].user_id)
  THEN Decide([st EXCEPT !.ctxIntentMatchReason = Some("invalid_intent_row")], r)
  ELSE [st EXCEPT !.intent = rows[1], !.pc = "claim_intent"]

\* The faulty variant without the try/catch around tryMatchIntent.
MatchRaisedUncaught(st, r) == EnterCatch(st, r, "select_failed")

\* Lines 828-831: what tryMatchIntent raises is swallowed, nobody is identified.
MatchRaised(st, r) == Decide(st, r)

SelectIntents(r) ==
  /\ req[r].pc = "select_intents"
  /\ \/ req' = [req EXCEPT ![r] =
          AfterSelect([@ EXCEPT !.selects = @ + 1], r, supabaseSelect(Val(@.amountCents)))]
     \* the select raises
     \/ req' = [req EXCEPT ![r] =
          MatchRaised([@ EXCEPT !.selects = @ + 1, !.raised = @ \cup {"select"}], r)]
  /\ UNCHANGED <<hasEnv, intents, expired, events, credits, probe>>

\* Number(v) of a value of the store: null counts as 0, None stands for NaN.
NumberOf(v) ==
  CASE v.t = "null" -> Some(0)
    [] v.t = "bool" -> Some(IF v.b THEN 100 ELSE 0)
    [] OTHER -> FiniteNumber(v)

\* Line 826: Number(intent?.days) > 0
IntentDaysPositive(id) == IsSome(NumberOf(intents[id].days)) /\ Val(NumberOf(intents[id].days)) > 0

\* Lines 588-590 and 821-827: the outcome of the claim and what the handler takes
\* from the intent.
AfterClaim(st, r, claimed) ==
  IF Cardinality(claimed) # 1 THEN Decide([st EXCEPT !.ctxIntentMatchReason = Some("claim_failed")], r)
  ELSE Decide([st EXCEPT !.ctxIntentMatchReason = Some("matched"),
                         !.userId = intents[st.intent].user_id,
                         !.ctxIntentId = st.intent,
                         !.days = IF NoDays(@) /\ IntentDaysPositive(st.intent)
                                  THEN NumberOf(intents[st.intent].days) ELSE @], r)

\* Lines 578-587: the conditional patch pending -> matched.
ClaimIntent(r) ==
  /\ req[r].pc = "claim_intent"
  /\ \/ LET claimed == ClaimRows(req[r].intent)
        IN /\ intents' = supabasePatch(claimed, "matched", req[r].providerPaymentId)
           /\ req' = [req EXCEPT ![r] =
                AfterClaim([@ EXCEPT !.patches = Append(@, [id |-> req[r].intent, status |-> "matched", ok |-> TRUE])],
                           r, claimed)]
     \* the patch raises: nothing is claimed
     \/ /\ req' = [req EXCEPT ![r] =
             MatchRaised([@ EXCEPT !.patches = Append(@, [id |-> req[r].intent, status |-> "matched", ok |-> FALSE]),
                                   !.raised = @ \cup {"claim"}], r)]
        /\ UNCHANGED intents
  /\ UNCHANGED <<hasEnv, expired, events, credits, probe>>

\* The faulty variant that credits the days of the price table.
applyCreditsTableDays(st) ==
  [userId |-> Val(st.userId),
   days |-> IF IsSome(daysFromAmount(st.amountCents)) THEN Val(daysFromAmount(st.amountCents)) * 100
            ELSE Val(st.days),
   amountCents |-> IF IsSome(st.amountCents) THEN Val(st.amountCents) ELSE 0,
   providerPaymentId |-> st.providerPaymentId]

\* The arguments of service_apply_payment_credits.
applyCredits(st) ==
  [userId |-> Val(st.userId), days |-> Val(st.days),
   amountCents |-> IF IsSome(st.amountCents) THEN Val(st.amountCents) ELSE 0,
   providerPaymentId |-> st.providerPaymentId]

\* The faulty variant that logs 'applied' and leaves the claimed intent as it is.
AfterApplyOkUnmarked(st, r) == CallLog([st EXCEPT !.outcome = "applied"], r, "applied", None, "final")

\* Lines 996-1028: after a successful apply.
AfterApplyOk(st, r) ==
  IF st.ctxIntentId # 0 THEN [st EXCEPT !.pc = "mark_applied"]
  ELSE CallLog([st EXCEPT !.outcome = "applied"], r, "applied", None, "final")

\* The faulty variant that takes a failed apply for a successful one.
AfterApplyFailedUnnoticed(st0, r) == AfterApplyOk(st0, r)

\* The faulty variant that leaves the claimed intent as it is.
AfterApplyFailedUnmarked(st0, r) ==
  CallLog([st0 EXCEPT !.outcome = "error", !.outcomeReason = Some("apply_failed")],
          r, "error", Some("apply_failed"), "apply_error")

\* Lines 956-994: after a failed apply.
AfterApplyFailed(st0, r) ==
  LET st == [st0 EXCEPT !.outcome = "error", !.outcomeReason = Some("apply_failed")]
  IN IF st.ctxIntentId # 0 THEN [st EXCEPT !.pc = "mark_error"]
     ELSE CallLog(st, r, "error", Some("apply_failed"), "apply_error")

ApplyCredits(r) ==
  /\ req[r].pc = "apply"
  /\ \/ /\ credits' = credits \cup {[by |-> r, call |-> applyCredits(req[r])]}
        /\ req' = [req EXCEPT ![r] =
             AfterApplyOk([@ EXCEPT !.applyCalls = Append(@, [call |-> applyCredits(req[r]), ok |-> TRUE])], r)]
     \/ /\ UNCHANGED credits
        /\ req' = [req EXCEPT ![r] =
             AfterApplyFailed([@ EXCEPT !.applyCalls = Append(@, [call |-> applyCredits(req[r]), ok |-> FALSE]),
                                        !.raised = @ \cup {"apply"}], r)]
  /\ UNCHANGED <<hasEnv, intents, expired, events, probe>>

\* Lines 997-1008: the claimed intent is marked applied (best effort).
MarkApplied(r) ==
  /\ req[r].pc = "mark_applied"
  /\ \E ok \in BOOLEAN :
       /\ intents' = IF ok THEN supabasePatch({req[r].ctxIntentId}, "applied", req[r].providerPaymentId)
                     ELSE intents
       /\ req' = [req EXCEPT ![r] =
            CallLog([@ EXCEPT !.outcome = "applied",
                              !.patches = Append(@, [id |-> req[r].ctxIntentId, status |-> "applied", ok |-> ok])],
                    r, "applied", None, "final")]
  /\ UNCHANGED <<hasEnv, expired, events, credits, probe>>

\* Lines 963-975: the claimed intent is marked error (best effort).
MarkError(r) ==
  /\ req[r].pc = "mark_error"
  /\ \E ok \in BOOLEAN :
       /\ intents' = IF ok THEN supabasePatch({req[r].ctxIntentId}, "error", req[r].providerPaymentId)
                     ELSE intents
       /\ req' = [req EXCEPT ![r] =
            CallLog([@ EXCEPT !.patches = Append(@, [id |-> req[r].ctxIntentId, status |-> "error", ok |-> ok])],
                    r, "error", req[r].outcomeReason, "apply_error")]
  /\ UNCHANGED <<hasEnv, expired, events, credits, probe>>

(***************************************************************************)
(* logWebhookEvent: the full insert, and one retry with the reduced        *)
(* columns when the failure looks like an unknown column.                  *)
(***************************************************************************)
\* The row with the reduced column set (trace_id and raw_event dropped).
ReducedRow(row) == [row EXCEPT !.trace_id = 0]

LastLogRow(st) == st.logCalls[Len(st.logCalls)]

\* The faulty variant that takes every failure for an unknown column.
looksLikeUnknownColumnAlways(result) == result # "ok"

\* Lines 409-411: msg.includes('Could not find the') || msg.includes('column') || msg.includes('PGRST')
looksLikeUnknownColumn(result) == result = "unknown_column"

\* The faulty variant that lets a failure other than an unknown column escape.
AfterInsertEscaping(st, r, result) ==
  IF result = "unknown_column" THEN [st EXCEPT !.pc = "insert_log_retry"]
  ELSE IF result \in {"ok", "retry_ok"} THEN AfterLog(st, r)
  ELSE Respond(st, 500, "error:Erro interno")

\* Where the handler stands after an insert of logWebhookEvent: in the retry
\* when the full insert failed on what looks like an unknown column, past the
\* call otherwise (logWebhookEvent never raises).
AfterInsert(st, r, result) ==
  IF looksLikeUnknownColumn(result) THEN [st EXCEPT !.pc = "insert_log_retry"] ELSE AfterLog(st, r)

InsertLog(r) ==
  /\ req[r].pc = "insert_log"
  /\ \E result \in InsertResults :
       /\ events' = IF result = "ok" THEN events \cup {LastLogRow(req[r])} ELSE events
       /\ req' = [req EXCEPT ![r] = AfterInsert(@, r, result)]
  /\ UNCHANGED <<hasEnv, intents, expired, credits, probe>>

InsertLogRetry(r) ==
  /\ req[r].pc = "insert_log_retry"
  /\ \E ok \in BOOLEAN :
       /\ events' = IF ok THEN events \cup {ReducedRow(LastLogRow(req[r]))} ELSE events
       /\ req' = [req EXCEPT ![r] = AfterInsert(@, r, IF ok THEN "retry_ok" ELSE "retry_failed")]
  /\ UNCHANGED <<hasEnv, intents, expired, credits, probe>>

(***************************************************************************)
(* The environment: the frontend stores intents, time passes.              *)
(***************************************************************************)
CreateIntent ==
  /\ Len(intents) < MaxIntents
  /\ \E k \in IntentKinds :
       intents' = Append(intents, [user_id |-> IF k.valid THEN Some(IntentUser(Len(intents) + 1)) ELSE None,
                                   days |-> k.days, amount_cents |-> IntentAmountCents,
                                   status |-> "pending", provider_payment_id |-> JNull])
  /\ UNCHANGED <<hasEnv, expired, events, credits, req, probe>>

\* An hour has passed since the oldest intent still in the window was created.
\* Only the select reads the clock: time is followed while a select may still come.
Expire ==
  /\ expired < Len(intents)
  /\ \E r \in Requests : req[r].pc \in {"idle", "resolve_email", "select_intents"}
  /\ expired' = expired + 1
  /\ UNCHANGED <<hasEnv, intents, events, credits, req, probe>>

Next ==
  \/ \E r \in Requests : Receive(r)
  \/ \E r \in Requests : ResolveEmail(r)
  \/ \E r \in Requests : SelectIntents(r)
  \/ \E r \in Requests : ClaimIntent(r)
  \/ \E r \in Requests : ApplyCredits(r)
  \/ \E r \in Requests : MarkApplied(r)
  \/ \E r \in Requests : MarkError(r)
  \/ \E r \in Requests : InsertLog(r)
  \/ \E r \in Requests : InsertLogRetry(r)
  \/ CreateIntent
  \/ Expire

Spec == Init /\ [][Next]_vars

(***************************************************************************)
(* computeApproval as a function of its arguments: the arguments are drawn *)
(* in the initial state, the one step applies the function.               *)
(***************************************************************************)
\* A field of a payload, left out when it has no value.
Field(key, value) == IF value = JNull THEN <<>> ELSE <<KV(key, value)>>

ApprovalFlags == {JNull, JBool(TRUE), JBool(FALSE), JStr("1"), JInt(0), JStr("yes")}
PaidFlags == {JNull, JBool(TRUE), JStr("false"), JInt(30)}
Timestamps == {JNull, JStr("2024-05-01T10:00:00Z")}
TotalAmounts == {JNull, JInt(0), JInt(799), JStr("7.99")}
PaidAmounts == {JNull, JInt(0), JInt(500), JInt(799), JStr("3500")}
Statuses == {None, Some("paid"), Some("rejected"), Some("processing")}
EventNames == {None, Some("payment.approved"), Some("payment.failed"), Some("ping")}

ApprovalInputs ==
  [approved : ApprovalFlags, paid : PaidFlags, paidAt : Timestamps, amount : TotalAmounts,
   paidAmount : PaidAmounts, status : Statuses, eventName : EventNames]

\* The payload that carries the signals of an input.
ApprovalEvt(in) ==
  Evt(Field("is_paid", in.paid),
      Field("approved", in.approved) \o Field("captured_at", in.paidAt)
        \o Field("total_amount", in.amount) \o Field("paid_amount", in.paidAmount))

ApprovalInit ==
  /\ hasEnv = TRUE
  /\ intents = <<>>
  /\ expired = 0
  /\ events = {}
  /\ credits = {}
  /\ req = [r \in Requests |-> IdleRequest]
  /\ probe \in [input : ApprovalInputs, applied : {FALSE}, result : {None}]

ApplyComputeApproval ==
  /\ ~probe.applied
  /\ probe' = [probe EXCEPT !.applied = TRUE,
                            !.result = computeApproval(probe.input.eventName, probe.input.status,
                                                       ApprovalEvt(probe.input))]
  /\ UNCHANGED <<hasEnv, intents, expired, events, credits, req>>

ApprovalNext == ApplyComputeApproval

ApprovalSpec == ApprovalInit /\ [][ApprovalNext]_vars

(***************************************************************************)
(* The user and the days the handler reads off the payload (lines 776 to   *)
(* 804), as a function of the reference, the metadata and the amount.      *)
(***************************************************************************)
References ==
  {JNull, JStr(RefU1Days30), JStr("user_" \o U2 \o "_180"), JStr("user_" \o U1 \o "_premium"),
   JStr("user_" \o U1 \o "_standard"), JStr("user_" \o U2 \o "_days_0"), JStr("order-17")}
MetaUsers == {JNull, JStr(U2), JStr("bob")}
MetaDays == {JNull, JInt(7), JStr("30"), JNum(250), JStr("0.3"), JInt(0), JStr("soon")}
DaysAmounts == {JNull, JInt(799), JInt(3500), JInt(5999), JInt(1234), JStr("7.99")}

DaysInputs == [reference : References, metaUser : MetaUsers, metaDays : MetaDays, amount : DaysAmounts]

\* The payload that carries an input.
DaysEvt(in) ==
  Evt(<<>>, Field("reference", in.reference) \o Field("user_id", in.metaUser)
              \o Field("days", in.metaDays) \o Field("amount", in.amount))

DaysInit ==
  /\ hasEnv = TRUE
  /\ intents = <<>>
  /\ expired = 0
  /\ events = {}
  /\ credits = {}
  /\ req = [r \in Requests |-> IdleRequest]
  /\ probe \in [input : DaysInputs, applied : {FALSE}, userId : {None}, days : {None}]

ApplyDaysResolution ==
  /\ ~probe.applied
  /\ probe' = [probe EXCEPT !.applied = TRUE,
                            !.userId = userIdFromPayload(DaysEvt(probe.input)),
                            !.days = daysFromPayload(DaysEvt(probe.input))]
  /\ UNCHANGED <<hasEnv, intents, expired, events, credits, req>>

DaysNext == ApplyDaysResolution

DaysSpec == DaysInit /\ [][DaysNext]_vars

(***************************************************************************)
(* findFirstKeyMatch and the status fallback as functions of the payload:  *)
(* the payloads are drawn in the initial state, one step applies the scan, *)
(* another the status extraction and computeApproval.                      *)
(***************************************************************************)
\* What a slot of the scanned payload holds: a key the scan does not look for,
\* a key it looks for with a string, or a key it looks for with null.
SlotKinds == {"none", "match", "null"}
Slot(kind) ==
  CASE kind = "match" -> <<KV("Status", JStr("Approved"))>>
    [] kind = "null" -> <<KV("status", JNull)>>
    [] OTHER -> <<KV("x", JInt(1))>>

\* The scanned payload: {a: {s2, c: {s3, d: {s6}}}, s1, b: [{s4}, {s5}]}.
ScanTree(slots) ==
  <<Obj(<<KV("a", JRef(2))>> \o Slot(slots[1]) \o <<KV("b", JRef(3))>>),
    Obj(Slot(slots[2]) \o <<KV("c", JRef(4))>>),
    Arr(<<JRef(5), JRef(6)>>),
    Obj(Slot(slots[3]) \o <<KV("d", JRef(7))>>),
    Obj(Slot(slots[4])),
    Obj(Slot(slots[5])),
    Obj(Slot(slots[6]))>>

\* Where the nodes of ScanTree sit: their depth, and for the elements of the
\* array their index in it (0 for the other nodes).
ScanNodeDepth == <<0, 1, 1, 2, 2, 2, 3>>
ScanNodeIndex == <<0, 0, 0, 0, 0, 1, 0>>
ScanSlotNode == <<1, 2, 4, 5, 6, 7>>
NumSlots == Len(ScanSlotNode)

ScanLimits == [maxDepth : {1, 2, 3, 5}, maxArray : {1, 50}, maxKeys : {2, 4, 200}]
ScanKeySet == {"status", "state", "situation", "payment_status", "transaction_status"}

ScanInputs == [fn : {"scan"}, slots : [1..NumSlots -> SlotKinds], opts : ScanLimits]

\* The payloads of the status fallback: a chain of objects under keys no fixed
\* path knows, the key at the given depth holding 'Approved'; at the root, next
\* to the chain, nothing, a status of null, or an address with its state.
StatusDepths == 1..6
StatusKeys == {"status", "Status", "STATUS"}
StatusRivals == {"none", "null", "address"}

StatusInputs == [fn : {"status"}, depth : StatusDepths, key : StatusKeys, rival : StatusRivals]

StatusEvt(in) ==
  LET rival == CASE in.rival = "address" -> <<KV("address", JRef(in.depth + 1))>>
                 [] in.rival = "null" -> <<KV("status", JNull)>>
                 [] OTHER -> <<>>
      chain == [i \in 1..in.depth |->
                  Obj((IF i = 1 THEN rival ELSE <<>>)
                        \o (IF i = in.depth THEN <<KV(in.key, JStr("Approved"))>>
                            ELSE <<KV("n", JRef(i + 1))>>))]
  IN IF in.rival = "address" THEN Append(chain, Obj(<<KV("state", JStr("sp"))>>)) ELSE chain

ScanInit ==
  /\ hasEnv = TRUE
  /\ intents = <<>>
  /\ expired = 0
  /\ events = {}
  /\ credits = {}
  /\ req = [r \in Requests |-> IdleRequest]
  /\ probe \in [input : ScanInputs \cup StatusInputs, applied : {FALSE}, result : {None},
                 status : {None}, approved : {None}]

ApplyFindFirstKeyMatch ==
  /\ ~probe.applied /\ probe.input.fn = "scan"
  /\ probe' = [probe EXCEPT !.applied = TRUE,
                            !.result = findFirstKeyMatch(ScanTree(probe.input.slots), ScanKeySet,
                                                         probe.input.opts)]
  /\ UNCHANGED <<hasEnv, intents, expired, events, credits, req>>

\* Lines 635-659: statusRaw, statusFallback, normalizeStatus, computeApproval.
ApplyStatusFallback ==
  /\ ~probe.applied /\ probe.input.fn = "status"
  /\ LET evt == StatusEvt(probe.input)
         status == normalizeStatus(statusFallback(evt))
     IN probe' = [probe EXCEPT !.applied = TRUE, !.status = status,
                               !.approved = computeApproval(normalizeEventName(eventNameRaw(evt)),
                                                            status, evt)]
  /\ UNCHANGED <<hasEnv, intents, expired, events, credits, req>>

ScanNext ==
  \/ ApplyFindFirstKeyMatch
  \/ ApplyStatusFallback

ScanSpec == ScanInit /\ [][ScanNext]_vars

(***************************************************************************)
(* The GET handshake and the health endpoint, with logWebhookEvent insert  *)
(* by insert.  probe holds the endpoint request in flight, the inserts     *)
(* attempted so far and the answers given.                                 *)
(***************************************************************************)
MaxCalls == 2

\* The row both endpoints hand to logWebhookEvent, but for its outcome.
EndpointRow(outcome) ==
  [provider |-> "infinitepay", approved |-> None, provider_payment_id |-> JNull, amount_cents |-> None,
   user_id |-> None, days |-> None, outcome |-> outcome, outcome_reason |-> None, trace_id |-> 0]

\* The intents in the store when the endpoints are called.
EndpointIntents ==
  {<<>>,
   <<[user_id |-> Some(U1), days |-> JInt(30), amount_cents |-> IntentAmountCents,
      status |-> "pending", provider_payment_id |-> JNull]>>}

IdleEndpoint ==
  [pc |-> "idle", kind |-> "", call |-> 0, wantLogWrite |-> FALSE, supabaseRpcOk |-> FALSE,
   logWriteOk |-> None, attempts |-> <<>>, responses |-> <<>>]

EndpointInit ==
  /\ hasEnv \in BOOLEAN
  /\ intents \in EndpointIntents
  /\ expired = 0
  /\ events = {}
  /\ credits = {}
  /\ req = [r \in Requests |-> IdleRequest]
  /\ probe = IdleEndpoint

\* res.status(200).json(...): the answer is on record and the endpoint is free again.
EndpointRespond(p) ==
  [p EXCEPT !.pc = "idle",
            !.responses = Append(@, [call |-> p.call, kind |-> p.kind, status |-> 200, ok |-> TRUE,
                                     wantLogWrite |-> p.wantLogWrite, logWriteOk |-> p.logWriteOk])]

\* The faulty variant that answers by what became of the inserts.
AfterEndpointLogStrict(p) ==
  LET stored == \E i \in DOMAIN p.attempts :
                  p.attempts[i].call = p.call /\ p.attempts[i].result \in {"ok", "retry_ok"}
  IN IF p.kind = "health" THEN EndpointRespond([p EXCEPT !.logWriteOk = Some(stored)])
     ELSE [p EXCEPT !.pc = "idle",
                    !.responses = Append(@, [call |-> p.call, kind |-> p.kind,
                                             status |-> IF stored THEN 200 ELSE 500, ok |-> stored,
                                             wantLogWrite |-> p.wantLogWrite, logWriteOk |-> p.logWriteOk])]

\* Lines 1073-1076 and 1127-1128: logWebhookEvent has returned; the handshake
\* answers, the health endpoint sets logWriteOk = true and answers.
AfterEndpointLog(p) ==
  IF p.kind = "health" THEN EndpointRespond([p EXCEPT !.logWriteOk = Some(TRUE)])
  ELSE EndpointRespond(p)

\* await logWebhookEvent(row): without configuration supabaseInsert raises
\* before any request is sent (requireEnv), in the retry as in the full insert,
\* and logWebhookEvent returns; otherwise the full insert is in flight.
EndpointCallLog(p) ==
  IF MissingEnv THEN AfterEndpointLog(p) ELSE [p EXCEPT !.pc = "insert_log"]

\* Lines 1111-1132: the optional log write of the health endpoint.
AfterHealthRpc(p) == IF p.wantLogWrite THEN EndpointCallLog(p) ELSE EndpointRespond(p)

\* Lines 1056-1076: GET /api/infinitepay/webhook.
GetWebhook ==
  /\ probe.pc = "idle" /\ probe.call < MaxCalls
  /\ probe' = EndpointCallLog([probe EXCEPT !.kind = "handshake", !.call = @ + 1, !.wantLogWrite = FALSE,
                                            !.logWriteOk = None])
  /\ UNCHANGED <<hasEnv, intents, expired, events, credits, req>>

\* Lines 1082-1108: GET /api/infinitepay/health, up to its RPC.
GetHealth ==
  /\ probe.pc = "idle" /\ probe.call < MaxCalls
  /\ \E wantLogWrite \in BOOLEAN :
       LET p == [probe EXCEPT !.kind = "health", !.call = @ + 1, !.wantLogWrite = wantLogWrite,
                              !.logWriteOk = None, !.supabaseRpcOk = FALSE]
       IN probe' = IF MissingEnv THEN AfterHealthRpc(p) ELSE [p EXCEPT !.pc = "health_rpc"]
  /\ UNCHANGED <<hasEnv, intents, expired, events, credits, req>>

\* Lines 1099-1107: the connectivity RPC answers or raises.
HealthRpc ==
  /\ probe.pc = "health_rpc"
  /\ \E ok \in BOOLEAN : probe' = AfterHealthRpc([probe EXCEPT !.supabaseRpcOk = ok])
  /\ UNCHANGED <<hasEnv, intents, expired, events, credits, req>>

\* Lines 405-411: the full insert of logWebhookEvent.
EndpointInsertLog ==
  /\ probe.pc = "insert_log"
  /\ \E result \in InsertResults :
       LET outcome == IF probe.kind = "health" THEN "healthcheck" ELSE "handshake"
           p == [probe EXCEPT !.attempts = Append(@, [call |-> probe.call, columns |-> "full",
                                                      outcome |-> outcome, result |-> result])]
       IN /\ events' = IF result = "ok" THEN events \cup {EndpointRow(outcome)} ELSE events
          /\ probe' = IF looksLikeUnknownColumn(result) THEN [p EXCEPT !.pc = "insert_log_retry"]
                      ELSE AfterEndpointLog(p)
  /\ UNCHANGED <<hasEnv, intents, expired, credits, req>>

\* Lines 412-446: the insert with the reduced columns.
EndpointInsertLogRetry ==
  /\ probe.pc = "insert_log_retry"
  /\ \E ok \in BOOLEAN :
       LET outcome == IF probe.kind = "health" THEN "healthcheck" ELSE "handshake"
           p == [probe EXCEPT !.attempts = Append(@, [call |-> probe.call, columns |-> "reduced",
                                                      outcome |-> outcome,
                                                      result |-> IF ok THEN "retry_ok" ELSE "retry_failed"])]
       IN /\ events' = IF ok THEN events \cup {ReducedRow(EndpointRow(outcome))} ELSE events
          /\ probe' = AfterEndpointLog(p)
  /\ UNCHANGED <<hasEnv, intents, expired, credits, req>>

EndpointNext ==
  \/ GetWebhook
  \/ GetHealth
  \/ HealthRpc
  \/ EndpointInsertLog
  \/ EndpointInsertLogRetry

EndpointSpec == EndpointInit /\ [][EndpointNext]_vars

(***************************************************************************)
(* Properties of the POST handler.                                         *)
(***************************************************************************)
Done(r) == req[r].pc = "done"
Answer(r, status, body) == req[r].res = Some([status |-> status, body |-> body])
StatusOf(r) == Val(req[r].res).status
\* The rows a request handed to logWebhookEvent.
Rows(r) == {req[r].logCalls[i] : i \in DOMAIN req[r].logCalls}
ApplySucceeded(r) == Len(req[r].applyCalls) = 1 /\ req[r].applyCalls[1].ok
ApplyFailed(r) == Len(req[r].applyCalls) >= 1 /\ ~req[r].applyCalls[1].ok
\* The patches a request issued that set the given status.
PatchesWith(r, status) == {i \in DOMAIN req[r].patches : req[r].patches[i].status = status}
MatchReturned(r) == IsSome(req[r].ctxIntentMatchReason)

\* C1: with the configuration present, a request whose approval is false ends
\* with outcome 'ignored', reason not_approved and HTTP 200 {received:true}, and
\* never calls apply_credit, whatever the remote store does.
\* It does not hold: the payer's email is resolved before the branch on
\* approved, and when that call raises the request ends 'error' with HTTP 500.
C1_NotApprovedIsIgnored ==
  \A r \in Requests :
    (hasEnv /\ Done(r) /\ req[r].approved = Some(FALSE))
      => /\ req[r].outcome = "ignored"
         /\ req[r].outcomeReason = Some("not_approved")
         /\ Answer(r, 200, "received:true")
         /\ req[r].applyCalls = <<>>

\* C2: with the configuration present, a request whose approval is unknown ends
\* with outcome 'skipped', reason unknown_approval_state and HTTP 200
\* {received:true, skipped:true}, and never calls apply_credit, whatever the
\* remote store does.
\* It does not hold, for the reason C1 does not.
C2_UnknownApprovalIsSkipped ==
  \A r \in Requests :
    (hasEnv /\ Done(r) /\ req[r].approved = None)
      => /\ req[r].outcome = "skipped"
         /\ req[r].outcomeReason = Some("unknown_approval_state")
         /\ Answer(r, 200, "received:true,skipped:true")
         /\ req[r].applyCalls = <<>>

\* C3: when the store holds one intent, a select of tryMatchIntent returned it
\* and both requests' calls of tryMatchIntent have returned, exactly one of them
\* got 'matched' and the other got 'claim_failed' or 'no_candidate'; and at most
\* one request calls apply_credit on behalf of an intent.
C3_OneClaimant ==
  /\ \A i \in DOMAIN intents :
       Cardinality({r \in Requests : req[r].ctxIntentId = i /\ req[r].applyCalls # <<>>}) <= 1
  /\ \A r \in Requests : Len(req[r].applyCalls) <= 1
  /\ (/\ Len(intents) = 1
      /\ \A r \in Requests : MatchReturned(r)
      /\ \E r \in Requests : req[r].intent = 1)
       => \E r \in Requests :
            /\ req[r].ctxIntentMatchReason = Some("matched")
            /\ \A o \in Requests \ {r} :
                 req[o].ctxIntentMatchReason \in {Some("claim_failed"), Some("no_candidate")}

\* Both requests selected the one pending intent before either claimed it: one
\* claim went through and the other found the row no longer pending.
C3_Witness ==
  /\ Len(intents) = 1
  /\ \A r \in Requests : Done(r) /\ req[r].intent = 1
  /\ \E r \in Requests :
       /\ req[r].ctxIntentMatchReason = Some("matched")
       /\ \E o \in Requests \ {r} : req[o].ctxIntentMatchReason = Some("claim_failed")

\* C4: in every call of apply_credit the user id is non-empty and days is an
\* integer greater than 0, whichever strategy supplied days.
\* It does not hold: the days of a claimed intent are passed on as
\* Number(intent.days), unrounded, so an intent of 2.5 days is applied as 2.5.
C4_ApplyArgumentsValid ==
  \A r \in Requests : \A i \in DOMAIN req[r].applyCalls :
    LET call == req[r].applyCalls[i].call
    IN /\ call.userId # ""
       /\ call.days > 0
       /\ call.days % 100 = 0

\* C5: a request calls apply_credit at most once, and it logs outcome 'applied'
\* and answers HTTP 200 {success:true} exactly when that call returned
\* successfully.
C5_AppliedIffApplySucceeded ==
  \A r \in Requests :
    /\ Len(req[r].applyCalls) <= 1
    /\ (\E row \in Rows(r) : row.outcome = "applied") => ApplySucceeded(r)
    /\ Done(r) =>
         /\ ApplySucceeded(r) <=> (\E row \in Rows(r) : row.outcome = "applied")
         /\ ApplySucceeded(r) <=> Answer(r, 200, "success:true")

\* A request whose one call of apply_credit succeeded has answered.
C5_Witness ==
  \E r \in Requests :
    /\ Done(r) /\ ApplySucceeded(r) /\ Answer(r, 200, "success:true")
    /\ \E o \in Requests : Done(o) /\ ApplyFailed(o)

C7_OneLogCallPerRequest ==
  \A r \in Requests : (hasEnv /\ Done(r)) => Len(req[r].logCalls) = 1

\* C8: whatever an insert of logWebhookEvent does (succeed, fail on an unknown
\* column, fail otherwise), the step leaves the intents, the credits and the
\* other request alone, and the handler goes on exactly as it does after a
\* successful insert, at most passing through the retry first: status, body,
\* apply_credit calls and intent patches do not depend on the insert.
C8_LogFailuresChangeNothing ==
  [][\A r \in Requests :
       (req[r].pc \in {"insert_log", "insert_log_retry"} /\ req'[r] # req[r])
         => /\ intents' = intents
            /\ credits' = credits
            /\ \A o \in Requests \ {r} : req'[o] = req[o]
            /\ req'[r] \in {AfterLog(req[r], r), [req[r] EXCEPT !.pc = "insert_log_retry"]}]_vars

\* A request answered 200 {success:true} although no 'applied' row reached the table.
C8_Witness ==
  \E r \in Requests :
    /\ Done(r) /\ Answer(r, 200, "success:true")
    /\ \A row \in events : row.outcome # "applied"

\* C9: once apply_credit has failed the outcome is 'error', every row logged
\* from then on says 'error', no patch to 'applied' is issued, the patch of the
\* claimed intent to 'error' is issued before the log is written, and the
\* request answers HTTP 500 after it logged.
C9_ApplyFailureIsAnError ==
  \A r \in Requests :
    ApplyFailed(r) =>
      /\ req[r].outcome = "error"
      /\ PatchesWith(r, "applied") = {}
      /\ \A row \in Rows(r) : row.outcome = "error"
      /\ (req[r].ctxIntentId # 0 /\ req[r].logCalls # <<>>)
           => \E i \in PatchesWith(r, "error") : req[r].patches[i].id = req[r].ctxIntentId
      /\ Done(r) =>
           /\ StatusOf(r) = 500
           /\ \E row \in Rows(r) : row.outcome_reason = Some("apply_failed")
           /\ \A i \in PatchesWith(r, "error") :
                req[r].patches[i].ok => intents[req[r].ctxIntentId].status = "error"

\* A request whose apply failed has answered, and the intent it claimed is in status 'error'.
C9_Witness ==
  \E r \in Requests :
    /\ Done(r) /\ ApplyFailed(r) /\ req[r].ctxIntentId # 0
    /\ intents[req[r].ctxIntentId].status = "error"

C11_MissingEnvMakesNoCall ==
  ~hasEnv =>
    /\ events = {} /\ credits = {}
    /\ \A i \in DOMAIN intents : intents[i].status = "pending"
    /\ \A r \in Requests :
         /\ req[r].rpcCalls = 0 /\ req[r].selects = 0
         /\ req[r].patches = <<>> /\ req[r].applyCalls = <<>> /\ req[r].logCalls = <<>>
         /\ req[r].pc \in {"idle", "done"}
         /\ Done(r) => Answer(r, 500, "error:missing_supabase_env")

\* Without configuration a payload that would have been applied was answered 500.
C11_Witness ==
  /\ ~hasEnv
  /\ Done(1) /\ req[1].evt = 1 /\ Answer(1, 500, "error:missing_supabase_env")

\* C12: the handler branches on the approval before it resolves identity: a
\* request whose approval is false or unknown makes no email lookup, no intent
\* select and no claim patch.
\* It does not hold: the email lookup and tryMatchIntent (lines 806-832) run
\* before the branches on approved (lines 840 and 864).
C12_NoResolutionUnlessApproved ==
  \A r \in Requests :
    (hasEnv /\ req[r].evt # 0 /\ req[r].approved # Some(TRUE))
      => /\ req[r].rpcCalls = 0
         /\ req[r].selects = 0
         /\ req[r].patches = <<>>

\* The reasons with which tryMatchIntent returns before its claim patch.
UnclaimedReasons == {"no_candidate", "multiple_candidates", "invalid_intent_row"}

\* C13: tryMatchIntent issues its claim patch only when the select returned
\* exactly one row that has a user_id; with no row, two rows or a row without
\* user_id it issues no patch and returns no intent, its reason is
\* no_candidate, multiple_candidates or invalid_intent_row, and the request goes
\* on with nobody identified.
C13_ClaimOnlySingleValidRow ==
  /\ [][\A r \in Requests :
         (req[r].pc = "select_intents" /\ req'[r] # req[r] /\ "select" \notin req'[r].raised)
           => LET S == Candidates(Val(req[r].amountCents))
                  unclaimed(reason) ==
                    /\ req'[r].ctxIntentMatchReason = Some(reason)
                    /\ req'[r].pc # "claim_intent"
                    /\ req'[r].intent = 0 /\ req'[r].ctxIntentId = 0
                    /\ req'[r].patches = <<>>
                    /\ NoUser(req'[r].userId)
              IN IF S = {} THEN unclaimed("no_candidate")
                 ELSE IF Cardinality(S) > 1 THEN unclaimed("multiple_candidates")
                 ELSE IF \A i \in S : NoUser(intents[i].user_id) THEN unclaimed("invalid_intent_row")
                 ELSE /\ req'[r].pc = "claim_intent"
                      /\ req'[r].intent \in S
                      /\ req'[r].patches = <<>>]_vars
  /\ [](\A r \in Requests :
         /\ \A i \in DOMAIN req[r].patches :
              req[r].patches[i].status = "matched"
                => /\ i = 1 /\ req[r].patches[i].id = req[r].intent /\ req[r].intent # 0
                   /\ ~NoUser(intents[req[r].intent].user_id)
         /\ (IsSome(req[r].ctxIntentMatchReason) /\ Val(req[r].ctxIntentMatchReason) \in UnclaimedReasons)
              => /\ req[r].patches = <<>> /\ req[r].intent = 0 /\ req[r].ctxIntentId = 0
                 /\ NoUser(req[r].userId)
                 /\ req[r].applyCalls = <<>>)

\* With two pending intents of the payload's amount the request was answered
\* without a patch, its reason multiple_candidates.
C13_Witness ==
  \E r \in Requests :
    /\ Done(r) /\ req[r].ctxIntentMatchReason = Some("multiple_candidates")
    /\ req[r].patches = <<>>
    /\ Cardinality({i \in DOMAIN intents : intents[i].status = "pending" /\ ~NoUser(intents[i].user_id)}) = 2

\* C14: identity resolution stops at the first strategy that yields a user id:
\* a request whose payload names the user (reference or metadata) makes no
\* email lookup, no intent select and no patch, and a request whose user came
\* from the email lookup makes no intent select and no patch.
C14_ResolutionStopsAtFirstUser ==
  \A r \in Requests :
    /\ (hasEnv /\ req[r].evt # 0 /\ ~NoUser(Extracted[req[r].evt].userId))
         => /\ req[r].userId = Extracted[req[r].evt].userId
            /\ req[r].rpcCalls = 0 /\ req[r].selects = 0 /\ req[r].patches = <<>>
    /\ (~NoUser(req[r].userId) /\ req[r].rpcCalls > 0 /\ req[r].ctxIntentMatchReason # Some("matched"))
         => req[r].selects = 0 /\ req[r].patches = <<>>
    /\ req[r].selects > 0 => NoUser(Extracted[req[r].evt].userId)
    /\ req[r].rpcCalls <= 1 /\ req[r].selects <= 1

\* A request was applied for the user its reference names although the payload
\* carries a payer email too.
C14_Witness ==
  /\ Done(1) /\ req[1].evt = 13 /\ ApplySucceeded(1)
  /\ Truthy(Extracted[13].payerEmail) /\ req[1].userId = Some(U2)
  /\ req[1].rpcCalls = 0 /\ req[1].selects = 0

\* The approved payloads with an amount and a payment id that name nobody: no
\* reference, no payer email, no user and no days in the metadata.
BarePayloads ==
  {p \in PayloadIds :
     /\ Extracted[p].approved = Some(TRUE)
     /\ IsSome(Extracted[p].amountCents)
     /\ Truthy(providerPaymentIdField(WebhookPayloads[p]))
     /\ ~Truthy(Extracted[p].reference)
     /\ ~Truthy(Extracted[p].payerEmail)
     /\ ~Truthy(maybeUserId(WebhookPayloads[p]))
     /\ ~Truthy(maybeDays(WebhookPayloads[p]))}

\* The reasons tryMatchIntent returns for a finite amount.
MatchReasons == UnclaimedReasons \cup {"claim_failed", "matched"}

\* C15 as stated: an approved payload with an amount and a payment id but no
\* reference, no payer email and no user or days metadata ends 'skipped' with
\* reason missing_user_or_days or missing_user_or_days_<intent-match reason>,
\* without any call of apply_credit.
\* It does not hold as stated: when exactly one pending intent of the amount
\* exists and is claimed, the intent names the user and the request is applied.
C15_BarePayloadIsSkipped ==
  \A r \in Requests :
    (hasEnv /\ Done(r) /\ req[r].evt \in BarePayloads)
      => /\ req[r].outcome = "skipped"
         /\ req[r].outcomeReason \in
              {Some("missing_user_or_days")} \cup {Some("missing_user_or_days_" \o m) : m \in MatchReasons}
         /\ req[r].applyCalls = <<>>

\* C15, amended: such a payload ends 'skipped', without any call of
\* apply_credit, unless tryMatchIntent claimed a pending intent and days greater
\* than 0 are known from the intent or the amount table; then apply_credit is
\* called once, for the user of the intent. The reason of the skip is
\* missing_user_or_days_<reason of tryMatchIntent>, and the plain
\* missing_user_or_days only when tryMatchIntent raised.
C15_BarePayloadIsSkippedUnlessClaimed ==
  \A r \in Requests :
    (hasEnv /\ Done(r) /\ req[r].evt \in BarePayloads)
      => IF req[r].ctxIntentMatchReason = Some("matched") /\ ~NoDays(req[r].days) /\ Val(req[r].days) > 0
         THEN /\ Len(req[r].applyCalls) = 1
              /\ req[r].ctxIntentId # 0
              /\ Some(req[r].applyCalls[1].call.userId) = intents[req[r].ctxIntentId].user_id
              /\ req[r].outcome \in {"applied", "error"}
         ELSE /\ req[r].outcome = "skipped"
              /\ Answer(r, 200, "received:true,skipped:true")
              /\ req[r].applyCalls = <<>>
              /\ \A row \in Rows(r) : row.outcome = "skipped" /\ row.outcome_reason = req[r].outcomeReason
              /\ IF req[r].ctxIntentMatchReason = None
                 THEN /\ req[r].outcomeReason = Some("missing_user_or_days")
                      /\ req[r].raised \cap {"select", "claim"} # {}
                 ELSE /\ Val(req[r].ctxIntentMatchReason) \in MatchReasons
                      /\ req[r].outcomeReason =
                           Some("missing_user_or_days_" \o Val(req[r].ctxIntentMatchReason))

\* The documented payload without its reference found no pending intent of its
\* amount and was skipped for that reason.
C15_Witness ==
  /\ 15 \in BarePayloads
  /\ Done(1) /\ req[1].evt = 15
  /\ req[1].outcome = "skipped"
  /\ req[1].outcomeReason = Some("missing_user_or_days_no_candidate")
  /\ req[1].applyCalls = <<>>

\* The approved payloads with an amount and a payment id whose reference parses
\* to a user and a number of days greater than 0.
ReferencePayloads ==
  {p \in PayloadIds :
     /\ Extracted[p].approved = Some(TRUE)
     /\ IsSome(Extracted[p].amountCents)
     /\ Truthy(providerPaymentIdField(WebhookPayloads[p]))
     /\ IsSome(parseReference(Extracted[p].reference))
     /\ Val(parseReference(Extracted[p].reference)).days > 0}

\* C16: an approved payload whose reference parses to a user and N > 0 days and
\* that carries an amount and a payment id ends 'applied' when apply_credit
\* succeeds, after exactly one call of apply_credit, for that user, N days, the
\* normalized amount in cents and the payment id of the payload.
C16_ReferencePayloadIsApplied ==
  \A r \in Requests :
    (hasEnv /\ Done(r) /\ req[r].evt \in ReferencePayloads /\ "apply" \notin req[r].raised)
      => LET evt == WebhookPayloads[req[r].evt]
             parsed == Val(parseReference(Extracted[req[r].evt].reference))
         IN /\ req[r].outcome = "applied"
            /\ Answer(r, 200, "success:true")
            /\ \E row \in Rows(r) : row.outcome = "applied"
            /\ req[r].applyCalls =
                 <<[call |-> [userId |-> parsed.user_id,
                              days |-> parsed.days * 100,
                              amountCents |-> Val(normalizeAmountCents(amountFallback(evt))),
                              providerPaymentId |-> providerPaymentIdField(evt)],
                    ok |-> TRUE]>>
            /\ \E c \in credits : c.by = r /\ c.call = req[r].applyCalls[1].call

\* A payment of 799 whose reference asks 180 days for the second user was
\* applied with these arguments.
C16_Witness ==
  /\ 13 \in ReferencePayloads
  /\ Done(1) /\ req[1].evt = 13 /\ req[1].outcome = "applied"
  /\ req[1].applyCalls =
       <<[call |-> [userId |-> U2, days |-> 18000, amountCents |-> 799, providerPaymentId |-> JStr("p13")],
          ok |-> TRUE]>>

\* C17: a request that claimed a pending intent and whose apply_credit
\* succeeded patches that same intent to 'applied' before it writes the
\* 'applied' log and answers; a request that claimed no intent patches no
\* intent after the apply.
C17_ClaimedIntentMarkedApplied ==
  \A r \in Requests :
    ApplySucceeded(r) =>
      IF req[r].ctxIntentId # 0
      THEN /\ req[r].ctxIntentId = req[r].intent
           /\ req[r].pc = "mark_applied" => req[r].logCalls = <<>> /\ PatchesWith(r, "applied") = {}
           /\ (req[r].logCalls # <<>> \/ Done(r))
                => /\ Cardinality(PatchesWith(r, "applied")) = 1
                   /\ \A i \in PatchesWith(r, "applied") :
                        /\ i = Len(req[r].patches)
                        /\ req[r].patches[i].id = req[r].ctxIntentId
                        /\ req[r].patches[i].ok => intents[req[r].ctxIntentId].status = "applied"
           /\ PatchesWith(r, "error") = {}
      ELSE /\ req[r].patches = <<>>
           /\ req[r].pc # "mark_applied"

\* A request that claimed an intent was applied and has answered, the intent in
\* status 'applied'.
C17_Witness ==
  \E r \in Requests :
    /\ Done(r) /\ ApplySucceeded(r) /\ req[r].ctxIntentId # 0
    /\ intents[req[r].ctxIntentId].status = "applied"
    /\ \E row \in Rows(r) : row.outcome = "applied"

\* C25: when the email lookup raises, the request ends with one audit-log row
\* of outcome 'error' and HTTP 500, without any intent select, intent patch or
\* call of apply_credit.
C25_EmailFailureIsAnError ==
  \A r \in Requests :
    "email" \in req[r].raised =>
      /\ req[r].rpcCalls = 1
      /\ req[r].selects = 0 /\ req[r].patches = <<>> /\ req[r].applyCalls = <<>>
      /\ Len(req[r].logCalls) = 1
      /\ \A row \in Rows(r) : row.outcome = "error" /\ row.outcome_reason = Some("rpc_failed")
      /\ \A row \in events : row.trace_id = r => row.outcome = "error"
      /\ Done(r) => Answer(r, 500, "error:Erro interno")

\* The email lookup of a paid payload raised: the request answered 500 and its
\* 'error' row is in the table.
C25_Witness ==
  /\ Done(1) /\ req[1].evt = 3 /\ "email" \in req[1].raised
  /\ Answer(1, 500, "error:Erro interno")
  /\ \E row \in events : row.trace_id = 1 /\ row.outcome = "error"

\* C26: every intent a request claimed is in status 'applied' or 'error' once
\* the request has answered, provided its later patch succeeded: no completed
\* request leaves an intent it claimed in status 'matched'.
\* It does not hold: a request that claimed an intent and then ends 'ignored'
\* or 'skipped' (lines 840-921) patches it no more.
C26_ClaimedIntentIsSettled ==
  \A r \in Requests :
    (/\ Done(r)
     /\ req[r].ctxIntentId # 0
     /\ \A i \in PatchesWith(r, "applied") \cup PatchesWith(r, "error") : req[r].patches[i].ok)
      => intents[req[r].ctxIntentId].status \in {"applied", "error"}

\* C27: whatever the deliveries of webhooks with one payment id and the
\* creations of pending intents of their amount, at most one intent is ever
\* claimed for that payment id and at most one user is credited for it through
\* intent matching.
\* It does not hold: a later delivery of the same payment finds the next
\* pending intent of the amount, claims it and credits its user.
C27_OneIntentPerPayment ==
  \A pid \in {req[r].providerPaymentId : r \in Requests} :
    /\ Cardinality({i \in DOMAIN intents :
                      intents[i].status # "pending" /\ intents[i].provider_payment_id = pid}) <= 1
    /\ Cardinality({c.call.userId : c \in {d \in credits :
                      d.call.providerPaymentId = pid /\ req[d.by].ctxIntentId # 0}}) <= 1

\* C28: the status of an intent only moves forward: pending -> matched by the
\* conditional claim of a request, matched -> applied or matched -> error by
\* the request that claimed it; no request sets an intent back to pending,
\* creates an intent, changes another column of it, or patches an intent it
\* did not claim.
C28_IntentStatusMovesForward ==
  [][/\ Len(intents') >= Len(intents)
     /\ Len(intents') > Len(intents) => req' = req
     /\ \A i \in DOMAIN intents :
          /\ intents'[i].user_id = intents[i].user_id
          /\ intents'[i].days = intents[i].days
          /\ intents'[i].amount_cents = intents[i].amount_cents
          /\ intents'[i] # intents[i] =>
               \E r \in Requests :
                 /\ req'[r] # req[r]
                 /\ \A o \in Requests \ {r} : req'[o] = req[o]
                 /\ \/ /\ intents[i].status = "pending" /\ intents'[i].status = "matched"
                       /\ req[r].pc = "claim_intent" /\ req[r].intent = i
                       /\ req'[r].ctxIntentId = i
                    \/ /\ intents[i].status = "matched" /\ intents'[i].status \in {"applied", "error"}
                       /\ req[r].ctxIntentId = i
                       /\ req[r].ctxIntentMatchReason = Some("matched")
                       /\ \E j \in PatchesWith(r, "matched") : req[r].patches[j].id = i /\ req[r].patches[j].ok]_vars

\* Of two intents one was claimed and marked 'applied' by a request that has
\* answered, the other is still pending.
C28_Witness ==
  /\ Len(intents) = 2
  /\ \E r \in Requests :
       /\ Done(r) /\ req[r].ctxIntentId # 0
       /\ intents[req[r].ctxIntentId].status = "applied"
       /\ \E i \in DOMAIN intents : intents[i].status = "pending"

(***************************************************************************)
(* Properties of the GET endpoints and of logWebhookEvent.                 *)
(***************************************************************************)
\* The inserts attempted for the n-th endpoint request.
AttemptsOf(n) == SelectSeq(probe.attempts, LAMBDA a : a.call = n)

\* The endpoint requests that were handshakes.
HandshakeCalls ==
  {probe.responses[j].call : j \in {k \in DOMAIN probe.responses : probe.responses[k].kind = "handshake"}}
    \cup (IF probe.kind = "handshake" THEN {probe.call} ELSE {})

\* C22: the GET handshake always answers HTTP 200 {ok:true}, with or without
\* configuration and whatever becomes of the log insert; its only remote
\* effect is the insert of an audit-log row of outcome 'handshake': no call of
\* apply_credit, no select or patch of an intent, and a repeated handshake
\* changes nothing else.
C22_HandshakeOnlyLogs ==
  /\ [](/\ \A i \in DOMAIN probe.responses :
             probe.responses[i].kind = "handshake"
               => (/\ probe.responses[i].status = 200 /\ probe.responses[i].ok
                   /\ probe.responses[i].logWriteOk = None)
        /\ \A i \in DOMAIN probe.attempts :
             probe.attempts[i].call \in HandshakeCalls => probe.attempts[i].outcome = "handshake"
        /\ credits = {}
        /\ (~hasEnv) => (events = {} /\ probe.attempts = <<>>))
  /\ [][(probe'.kind = "handshake" /\ probe' # probe)
          => (/\ intents' = intents /\ credits' = credits /\ req' = req /\ expired' = expired
              /\ events' \subseteq events \cup {EndpointRow("handshake")}
              /\ (probe'.pc = "idle") =>
                   (/\ Len(probe'.responses) = Len(probe.responses) + 1
                    /\ probe'.responses[Len(probe'.responses)].status = 200))]_vars

\* Two handshakes were answered 200 with the store configured and an intent
\* pending, though no insert of theirs succeeded.
C22_Witness ==
  /\ hasEnv /\ intents # <<>> /\ events = {}
  /\ probe.pc = "idle" /\ Len(probe.responses) = 2 /\ probe.attempts # <<>>
  /\ \A i \in DOMAIN probe.responses :
       probe.responses[i].kind = "handshake" /\ probe.responses[i].status = 200

\* C23: logWebhookEvent never raises and makes at most two insert attempts per
\* call: the insert of the full row and, only when that one failed with what
\* is taken for an unknown column, the insert of the reduced columns; after
\* any other failure there is no second attempt.
C23_AtMostOneRetry ==
  /\ \A n \in 1..probe.call :
       LET a == AttemptsOf(n)
       IN /\ Len(a) <= 2
          /\ Len(a) >= 1 => a[1].columns = "full"
          /\ Len(a) = 2 => a[1].result = "unknown_column" /\ a[2].columns = "reduced"
          /\ (Len(a) = 1 /\ a[1].result = "unknown_column")
               => n = probe.call /\ probe.pc = "insert_log_retry"
          /\ (n < probe.call \/ probe.pc = "idle")
               => \E i \in DOMAIN probe.responses :
                    probe.responses[i].call = n /\ probe.responses[i].status = 200
  /\ probe.pc = "insert_log_retry" => Len(AttemptsOf(probe.call)) = 1
  /\ probe.pc = "insert_log" => AttemptsOf(probe.call) = <<>>

\* A call whose full insert failed on an unknown column stored the reduced row.
C23_Witness ==
  /\ probe.pc = "idle" /\ probe.call = 1
  /\ Len(probe.attempts) = 2
  /\ probe.attempts[1].result = "unknown_column" /\ probe.attempts[2].result = "retry_ok"
  /\ events # {}

\* C29: on the health endpoint with the log-write flag, logWriteOk is true only
\* if an insert of the audit log succeeded and false when every attempt
\* failed; without the flag no insert is attempted and logWriteOk is null.
\* It does not hold: logWebhookEvent never raises, so logWriteOk is true
\* whenever the flag is set (lines 1127-1131).
C29_LogWriteOkTellsTheTruth ==
  \A i \in DOMAIN probe.responses :
    LET res == probe.responses[i]
        stored == \E j \in DOMAIN probe.attempts :
                    probe.attempts[j].call = res.call /\ probe.attempts[j].result \in {"ok", "retry_ok"}
    IN res.kind = "health" =>
         IF res.wantLogWrite
         THEN res.logWriteOk = Some(stored)
         ELSE res.logWriteOk = None /\ AttemptsOf(res.call) = <<>>

(***************************************************************************)
(* Properties of the tree scanner.                                         *)
(***************************************************************************)
RECURSIVE Flatten(_)
Flatten(seqs) == IF seqs = <<>> THEN <<>> ELSE Head(seqs) \o Flatten(Tail(seqs))

\* The values an entry of the queue pushes: nothing at the depth limit, the
\* first maxArray elements of an array, the objects and arrays of an object.
ScanChildren(nodes, item, opts) ==
  IF item.value.t # "ref" \/ item.depth >= opts.maxDepth THEN <<>>
  ELSE LET node == nodes[item.value.n]
       IN IF node.kind = "arr"
          THEN [i \in 1..Min(Len(node.items), opts.maxArray) |->
                  [value |-> node.items[i].v, path |-> Append(item.path, ToString(i - 1)),
                   depth |-> item.depth + 1]]
          ELSE LET kept == SelectSeq(node.items, LAMBDA e : e.v.t = "ref")
               IN [i \in DOMAIN kept |->
                     [value |-> kept[i].v, path |-> Append(item.path, kept[i].k), depth |-> item.depth + 1]]

\* The queue of a tree level by level, from the given level on.
RECURSIVE LevelOrder(_, _, _)
LevelOrder(nodes, level, opts) ==
  IF level = <<>> THEN <<>>
  ELSE level \o LevelOrder(nodes, Flatten([i \in DOMAIN level |-> ScanChildren(nodes, level[i], opts)]), opts)

\* The keys in the order in which the scan counts them, with their depth.
KeysInOrder(nodes, opts) ==
  LET queue == LevelOrder(nodes, <<[value |-> JRef(1), path |-> <<"$">>, depth |-> 0]>>, opts)
      keysOf(item) ==
        IF item.value.t = "ref" /\ item.depth < opts.maxDepth /\ nodes[item.value.n].kind = "obj"
        THEN [j \in DOMAIN nodes[item.value.n].items |->
                [path |-> Append(item.path, nodes[item.value.n].items[j].k),
                 k |-> nodes[item.value.n].items[j].k, v |-> nodes[item.value.n].items[j].v,
                 depth |-> item.depth + 1]]
        ELSE <<>>
  IN Flatten([i \in DOMAIN queue |-> keysOf(queue[i])])

\* The keys of the key set that hold a string, a number or a boolean.
HitsIn(keys, keySet) ==
  {m \in DOMAIN keys : ToLowerCase(keys[m].k) \in keySet /\ keys[m].v.t \in {"str", "num", "bool"}}

\* The first of them within the key limit, as the scan returns it.
ExpectedKeyMatch(nodes, keySet, opts) ==
  LET keys == KeysInOrder(nodes, opts)
      hits == HitsIn(keys, keySet)
      m == IF hits = {} THEN 0 ELSE CHOOSE m \in hits : \A o \in hits : m <= o
  IN IF m # 0 /\ m <= opts.maxKeys THEN Some([path |-> keys[m].path, value |-> keys[m].v]) ELSE None

\* The scan counted more keys than maxKeys before it met a match.
KeyLimitHit(nodes, keySet, opts) ==
  LET keys == KeysInOrder(nodes, opts)
  IN Len(keys) > opts.maxKeys /\ \A m \in HitsIn(keys, keySet) : m > opts.maxKeys

\* The depths of the keys of ScanTree that match with a primitive value:
\* wherever they are, and where the scan can get at them.
AllMatchDepths(slots) == {ScanNodeDepth[ScanSlotNode[i]] + 1 : i \in {j \in 1..NumSlots : slots[j] = "match"}}
ReachableMatchDepths(slots, opts) ==
  {ScanNodeDepth[ScanSlotNode[i]] + 1 :
     i \in {j \in 1..NumSlots : /\ slots[j] = "match"
                                /\ ScanNodeDepth[ScanSlotNode[j]] < opts.maxDepth
                                /\ ScanNodeIndex[ScanSlotNode[j]] < opts.maxArray}}

\* C24 as stated: findFirstKeyMatch returns the match found first in
\* breadth-first order: when a matching key with a primitive value exists at
\* depth d and the key limit is not hit, no match deeper than d is returned;
\* at the key limit or the depth limit the result is null.
\* It does not hold as stated: a match in an element of an array past the
\* first maxArray ones is never met, and a deeper match is returned.
C24_ShallowestMatchWins ==
  (probe.applied /\ probe.input.fn = "scan") =>
    LET nodes == ScanTree(probe.input.slots)
        opts == probe.input.opts
        hit == KeyLimitHit(nodes, ScanKeySet, opts)
    IN /\ (~hit /\ IsSome(probe.result))
            => \A d \in AllMatchDepths(probe.input.slots) : Len(Val(probe.result).path) - 1 <= d
       /\ hit => probe.result = None
       /\ (\A d \in AllMatchDepths(probe.input.slots) : d > opts.maxDepth) => probe.result = None

\* C24, amended: findFirstKeyMatch returns the match that is first in
\* breadth-first order among the keys it can get at, that is, not below the
\* depth limit and not in an element of an array past the first maxArray ones:
\* when such a key exists at depth d and the key limit is not hit, the result
\* is a match and none deeper than d; at the key limit or with every match
\* below the depth limit the result is null.
C24_ShallowestReachableMatchWins ==
  (probe.applied /\ probe.input.fn = "scan") =>
    LET nodes == ScanTree(probe.input.slots)
        opts == probe.input.opts
        hit == KeyLimitHit(nodes, ScanKeySet, opts)
        depths == ReachableMatchDepths(probe.input.slots, opts)
    IN /\ probe.result = ExpectedKeyMatch(nodes, ScanKeySet, opts)
       /\ (~hit /\ depths # {})
            => /\ IsSome(probe.result)
               /\ \A d \in depths : Len(Val(probe.result).path) - 1 <= d
               /\ Val(probe.result).value = JStr("Approved")
       /\ hit => probe.result = None
       /\ depths = {} => probe.result = None

\* With one element per array the match in the second element was passed over
\* and the deeper match under a.c.d was returned.
C24_Witness ==
  /\ probe.applied /\ probe.input.fn = "scan"
  /\ probe.input.opts = [maxDepth |-> 5, maxArray |-> 1, maxKeys |-> 200]
  /\ probe.input.slots = <<"none", "null", "none", "none", "match", "match">>
  /\ probe.result = Some([path |-> <<"$", "a", "c", "d", "Status">>, value |-> JStr("Approved")])

\* The payload has no status on a fixed path.
NoFixedStatus(in) == ~Truthy(statusRaw(StatusEvt(in)))

\* C21 as stated: for a payload without status on a fixed path and without
\* other approval signal, in which a key 'status' in any letter case holds
\* 'Approved' at a depth of up to 5, the status fallback scan finds the value
\* and the approval is true.
\* It does not hold as stated: the scan looks for 'state' and three more keys
\* too, and returns whichever it meets first.
C21_NestedStatusApproves ==
  (probe.applied /\ probe.input.fn = "status" /\ NoFixedStatus(probe.input) /\ probe.input.depth <= 5)
    => probe.status = Some("approved") /\ probe.approved = Some(TRUE)

\* C21, amended: for such a payload the scan finds the value and the approval
\* is true provided no other key of the scan's key set (status, state,
\* situation, payment_status, transaction_status) holding a primitive value
\* comes earlier in breadth-first order; when one does, its value is the
\* status. Below depth 5 the key is not found.
C21_NestedStatusApprovesWhenFirst ==
  (probe.applied /\ probe.input.fn = "status" /\ NoFixedStatus(probe.input)) =>
    LET in == probe.input
        rivalFirst == in.rival = "address" /\ in.depth >= 2
    IN /\ (in.depth <= 5 /\ ~rivalFirst) => probe.status = Some("approved") /\ probe.approved = Some(TRUE)
       /\ rivalFirst => probe.status = Some("sp") /\ probe.approved = None
       /\ (in.depth > 5 /\ ~rivalFirst) => probe.status = None /\ probe.approved = None

\* A key STATUS at depth 5, next to a status of null at the root, was found
\* and the approval is true.
C21_Witness ==
  /\ probe.applied
  /\ probe.input = [fn |-> "status", depth |-> 5, key |-> "STATUS", rival |-> "null"]
  /\ NoFixedStatus(probe.input)
  /\ probe.status = Some("approved") /\ probe.approved = Some(TRUE)

(***************************************************************************)
(* Properties of computeApproval.                                          *)
(***************************************************************************)
\* The rules of the decision list for an input, in their order: whether the
\* rule matches and the value it gives.
ApprovalRules(in) ==
  LET amountCents == normalizeAmountCents(in.amount)
      paidAmountCents == normalizeAmountCents(in.paidAmount)
      compared == IsSome(amountCents) /\ IsSome(paidAmountCents) /\ Val(amountCents) > 0
  IN <<[hit |-> IsSome(toBoolOrNull(in.approved)), value |-> toBoolOrNull(in.approved) = Some(TRUE)],
       [hit |-> IsSome(toBoolOrNull(in.paid)), value |-> toBoolOrNull(in.paid) = Some(TRUE)],
       [hit |-> in.paidAt # JNull, value |-> TRUE],
       [hit |-> compared /\ (Val(paidAmountCents) >= Val(amountCents) \/ Val(paidAmountCents) = 0),
        value |-> compared /\ Val(paidAmountCents) >= Val(amountCents)],
       [hit |-> in.status \in {Some(x) : x \in okStatuses \cup notOkStatuses},
        value |-> in.status \in {Some(x) : x \in okStatuses}],
       [hit |-> in.eventName \in {Some(x) : x \in okEvents \cup notOkEvents},
        value |-> in.eventName \in {Some(x) : x \in okEvents}]>>

\* The value of the first rule that matches, None when none does.
RECURSIVE FirstMatch(_)
FirstMatch(rules) ==
  IF rules = <<>> THEN None
  ELSE IF Head(rules).hit THEN Some(Head(rules).value)
  ELSE FirstMatch(Tail(rules))

\* C18: computeApproval is a decision list whose first matching rule wins, in
\* the order explicit flags, timestamps, amount comparison, status lists, event
\* lists: a recognized explicit flag is the result whatever the other signals
\* say, and the result is unknown only if no rule matches.
C18_ApprovalIsFirstMatch ==
  probe.applied =>
    LET in == probe.input
        rules == ApprovalRules(in)
    IN /\ probe.result = FirstMatch(rules)
       /\ in.approved \in {JBool(TRUE), JStr("1")} => probe.result = Some(TRUE)
       /\ in.approved \in {JBool(FALSE), JInt(0)} => probe.result = Some(FALSE)
       /\ probe.result = None <=> \A i \in DOMAIN rules : ~rules[i].hit

\* An explicit approved flag of false won over an explicit paid flag, a
\* timestamp, a full payment, a paid status and an approving event.
C18_Witness ==
  /\ probe.applied
  /\ probe.input = [approved |-> JInt(0), paid |-> JBool(TRUE), paidAt |-> JStr("2024-05-01T10:00:00Z"),
                    amount |-> JInt(799), paidAmount |-> JInt(799), status |-> Some("paid"),
                    eventName |-> Some("payment.approved")]
  /\ probe.result = Some(FALSE)

\* The inputs of the amount comparison: no explicit flag, no timestamp, a
\* total amount and a paid amount that both resolve.
AmountsOnly(in) ==
  /\ ~IsSome(toBoolOrNull(in.approved)) /\ ~IsSome(toBoolOrNull(in.paid))
  /\ in.paidAt = JNull
  /\ IsSome(normalizeAmountCents(in.amount)) /\ IsSome(normalizeAmountCents(in.paidAmount))

\* C19 as stated: without flag and timestamp and with both amounts resolvable,
\* paidAmount >= amount gives true and paidAmount = 0 gives false, for every
\* pair of amounts, a total amount of 0 included.
\* It does not hold as stated: the comparison is made only when the total
\* amount is greater than 0 (line 202).
C19_AmountRuleForEveryPair ==
  (probe.applied /\ AmountsOnly(probe.input)) =>
    LET amountCents == Val(normalizeAmountCents(probe.input.amount))
        paidAmountCents == Val(normalizeAmountCents(probe.input.paidAmount))
    IN IF paidAmountCents >= amountCents THEN probe.result = Some(TRUE)
       ELSE paidAmountCents = 0 => probe.result = Some(FALSE)

\* C19, amended: without flag and timestamp and with both amounts resolvable,
\* when the total amount is greater than 0, paidAmount >= amount gives true and
\* paidAmount = 0 gives false; when the total amount is 0 the amounts decide
\* nothing and the result is the one of the status and event lists.
C19_AmountRuleForPositiveTotal ==
  (probe.applied /\ AmountsOnly(probe.input)) =>
    LET amountCents == Val(normalizeAmountCents(probe.input.amount))
        paidAmountCents == Val(normalizeAmountCents(probe.input.paidAmount))
    IN IF amountCents > 0
       THEN /\ paidAmountCents >= amountCents => probe.result = Some(TRUE)
            /\ paidAmountCents = 0 => probe.result = Some(FALSE)
       ELSE probe.result = FirstMatch(SubSeq(ApprovalRules(probe.input), 5, 6))

\* A total amount of 0 with a paid amount of 0 and no other signal: unknown.
C19_Witness ==
  /\ probe.applied /\ AmountsOnly(probe.input)
  /\ probe.input.amount = JInt(0) /\ probe.input.paidAmount = JInt(0)
  /\ probe.input.status = None /\ probe.input.eventName = None
  /\ probe.result = None

(***************************************************************************)
(* Properties of the days resolution.                                      *)
(***************************************************************************)
\* C20: the amount-to-days table only fills in days when no other source gave
\* a value: days given by the reference or by the metadata are never replaced
\* by the days of the table, and the table never sets the user id.
\* It does not hold: days of 0 given by the reference count as missing at line
\* 804 and the table replaces them.
C20_TableOnlyFillsMissingDays ==
  probe.applied =>
    LET in == probe.input
        parsed == parseReference(in.reference)
        n == safeNumber(in.metaDays)
        metaGave == IsSome(n) /\ MathRound(Val(n)) > 0
        table == daysFromAmount(normalizeAmountCents(in.amount))
    IN /\ (IsSome(parsed) /\ Val(parsed).days > 0) => probe.days = Some(Val(parsed).days * 100)
       /\ (IsSome(parsed) /\ Val(parsed).days = 0 /\ ~metaGave) => probe.days = Some(0)
       /\ (~IsSome(parsed) /\ metaGave) => probe.days = Some(MathRound(Val(n)) * 100)
       /\ (~IsSome(parsed) /\ ~metaGave)
            => IF IsSome(table) THEN probe.days = Some(Val(table) * 100) ELSE NoDays(probe.days)
       /\ probe.userId = userIdFromPayload(DaysEvt([in EXCEPT !.amount = JNull]))
       /\ (~IsSome(parsed) /\ ~looksLikeUuid(in.metaUser)) => NoUser(probe.userId)

====
